---- MODULE Spec2Model ----
(***************************************************************************)
(* A model of the cswitch node's connection layer and token channel.       *)
(*                                                                         *)
(*  - the Channeler event loop (components/channeler/src/channeler.rs):    *)
(*    the friend registry, connection acceptance, receiver events, and     *)
(*    the reports sent to the credit layer (the Funder);                   *)
(*  - the keepalive loop (components/keepalive/src/keepalive.rs);          *)
(*  - the token channel between two friends                                *)
(*    (components/funder/src/token_channel): the turn protocol over the    *)
(*    mutual credits, inconsistency and reset.                             *)
(*                                                                         *)
(* The Channeler loop handles one event at a time, so each handler is one  *)
(* action.  The tasks it spawns (connect attempts, per session receive     *)
(* and send tasks) and its peers run concurrently and are actions of      *)
(* their own.                                                              *)
(***************************************************************************)
EXTENDS Integers, Sequences, FiniteSets, TLC

(***************************************************************************)
(* Bounds of the model.                                                    *)
(***************************************************************************)
\* Session slots: accepted connections whose receive task is still running.
MaxSessions == 2
\* Frames the remote peers send on the sessions that are open.
MaxFrames == 2
\* Connect attempts outstanding for one public key.
MaxConnectTasks == 2
\* Connection events queued for the loop for one public key.
MaxConnEvents == 1
\* Distinct payloads the Funder sends to a friend.
MaxPayload == 2
\* The largest keepalive_ticks the keepalive loop is started with.
MaxKeepaliveTicks == 6
\* Distinct payloads of the frames that pass through the keepalive loop.
MaxKaPayload == 2
\* The largest move_token_counter a token channel endpoint moves on to.
MaxMoveTokenCounter == 3
\* local_max_debt and remote_max_debt of every mutual credit.
MaxDebt == 1
\* Distinct request ids of the pending transactions.
MaxRequestId == 1
\* Calls of funder_report_mutate in one run.
MaxReportCalls == 3
\* The values a field of a report takes are 0 .. MaxReportValue.
MaxReportValue == 1
\* Bytes of a word of a custom integer.
WordBytes == 2
\* The byte arrays of the messages repeat one byte of 1 .. MaxFillByte.
MaxFillByte == 2
\* Longest rand_padding and PlainData.
MaxVecLen == 2
\* The public keys of the signature buffers are <<1>> .. <<MaxSbKey>>.
MaxSbKey == 3
\* Distinct request ids, and distinct nonces, of the signature buffers.
MaxSbId == 2
\* The channel indices of a neighbor are 0 .. MaxChannelIndex.
MaxChannelIndex == 1
\* max_channels, remote_max_debt and balance_for_reset are 0 .. MaxMsValue.
MaxMsValue == 1
\* Calls of the operations of MessengerState in one run.
MaxMessengerCalls == 4

\* Public keys are modelled as small naturals under their total order.
\* As in the tests of channeler.rs, the local key is the middle one.
PublicKeys == {0, 1, 2}
local_public_key == 1
\* The keys of the friends the Funder configures: a node is not its own friend.
FriendKeys == PublicKeys \ {local_public_key}

Sessions == 1 .. MaxSessions
Payloads == 1 .. MaxPayload
\* Option<Vec<NetAddress>> given to SetAddress: None or Some(addresses).
OptAddresses == {<<"None">>, <<"Some", <<1>>>>}
\* local_addresses of ChannelerUpdateFriend: a vector of vectors.
LocalAddresses == {<< >>, <<<<1>>, <<2>>>>}
\* friend_address of ChannelerUpdateFriend.
FriendAddresses == {<<0>>}

VARIABLES
    in_friends,     \* Friends::in_friends: pk -> InFriend (or Absent)
    out_friends,    \* Friends::out_friends: pk -> OutFriend status (or Absent)
    sessions,       \* per slot: the tasks and channels of an accepted connection
    conn_events,    \* pk -> number of ChannelerEvent::Connection queued for the loop
    connect_tasks,  \* pk -> number of spawned connect attempts still awaiting connect()
    lp_friends,     \* friends the Listen Pool accepts connections from
    loop_result,    \* "Running", or the error channeler_loop returned
    log,            \* what the last step logged with warn!/error!
    to_funder,      \* what the last step sent on to_funder
    listen_config,  \* what the last step sent on listen_config
    connector_config, \* what the last step sent to a friend's config_client
    to_remote,      \* what the last step handed to a remote peer
    funder_view     \* pk -> the liveness the Funder last heard of ("Online"/"Offline")

chVars == <<in_friends, out_friends, sessions, conn_events, connect_tasks,
            lp_friends, loop_result, log, to_funder, listen_config,
            connector_config, to_remote, funder_view>>

\* The keepalive loop (inner_keepalive_loop) of one connection.
VARIABLES
    keepalive_ticks,          \* the argument keepalive_ticks
    ticks_to_close,           \* ticks remaining until the connection is closed
    ticks_to_send_keepalive,  \* ticks remaining until a keepalive is sent
    ka_result,                \* "Running", "Ok", or the KeepAliveError returned
    ka_to_remote,             \* what the last step sent on to_remote
    ka_to_user,               \* what the last step sent on to_user
    silent_ticks,             \* timer ticks handled since the last inbound frame
    out_ticks,                \* timer ticks handled since the last outbound frame
    ka_event                  \* the KeepAliveEvent the last step handled

kaVars == <<keepalive_ticks, ticks_to_close, ticks_to_send_keepalive, ka_result,
            ka_to_remote, ka_to_user, silent_ticks, out_ticks, ka_event>>

\* The token channel between two endpoints.
VARIABLES
    tc_status,           \* the TcStatus of each endpoint
    move_token_counter,  \* the move_token_counter of each endpoint
    mutual_credits,      \* the mutual credits of each endpoint, by currency
    tc_online,           \* whether the transport between the endpoints is up
    tc_sent,             \* the counters of the MoveTokens each endpoint sent
    tc_seen,             \* the largest counter each endpoint used or was sent
    tc_chain,            \* the tokens each endpoint sent or accepted, in order
    tc_event             \* what the last step handled, and its result

tcVars == <<tc_status, move_token_counter, mutual_credits, tc_online, tc_sent,
            tc_seen, tc_chain, tc_event>>

\* The report of the Funder.
VARIABLES
    funder_report,   \* the FunderReport the mutations are applied to
    report_result,   \* "None", "Ok", or the ReportMutateError of the last call
    report_calls     \* the calls of funder_report_mutate so far

rpVars == <<funder_report, report_result, report_calls>>

\* A message of the secure channel, serialized and deserialized.
VARIABLES
    sc_message,      \* the message, with its type
    sc_serialized,   \* the bytes its serializer returned, once it has
    sc_deserialized  \* the Result its deserializer returned, once it has

scVars == <<sc_message, sc_serialized, sc_deserialized>>

\* A pending request of the Funder with a response and a failure for it.
VARIABLES
    sb_pending_request,       \* the PendingFriendRequest
    sb_response_send_funds,   \* a ResponseSendFunds
    sb_failure_send_funds,    \* a FailureSendFunds
    sb_response_buffer,       \* what create_response_signature_buffer returned
    sb_failure_verified       \* what verify_failure_signature returned

sbVars == <<sb_pending_request, sb_response_send_funds, sb_failure_send_funds,
            sb_response_buffer, sb_failure_verified>>

\* The MessengerState of the Networker and what its last call returned.
VARIABLES
    ms_neighbors,             \* MessengerState.neighbors
    ms_result,                \* the call that returned last, and its result
    ms_calls                  \* calls made so far

msVars == <<ms_neighbors, ms_result, ms_calls>>

vars == <<chVars, kaVars, tcVars, rpVars, scVars, sbVars, msVars>>

(***************************************************************************)
(* Values.                                                                 *)
(***************************************************************************)
\* A key that is in neither map.
Absent == [status |-> "Absent", sid |-> 0, opt_sender |-> FALSE]
\* InFriend::Listening
Listening == [status |-> "Listening", sid |-> 0, opt_sender |-> FALSE]
\* OutFriendStatus::Connecting
Connecting == [status |-> "Connecting", sid |-> 0, opt_sender |-> FALSE]
\* Connected::new(friend_sender): the sender of session s's overwrite channel.
Connected_new(s) == [status |-> "Connected", sid |-> s, opt_sender |-> TRUE]

\* A free session slot.
FreeSession ==
    [pk |-> 0, recv |-> "Free", from_remote |-> << >>, n_sent |-> 0,
     send |-> "Done", opt_item |-> 0, funder_got |-> << >>]

\* ChannelerToFunder::{Online, Offline, Message}
Online(pk) == [type |-> "Online", pk |-> pk, data |-> 0]
Offline(pk) == [type |-> "Offline", pk |-> pk, data |-> 0]
Message(pk, d) == [type |-> "Message", pk |-> pk, data |-> d]

\* crypto::identity::compare_public_key: the total order of public keys.
compare_public_key(a, b) ==
    IF a < b THEN "Less" ELSE IF a = b THEN "Equal" ELSE "Greater"

is_listen_friend_flipped(friend_public_key) ==
    compare_public_key(local_public_key, friend_public_key) = "Greater"

\* Channeler::is_listen_friend
is_listen_friend(friend_public_key) ==
    compare_public_key(local_public_key, friend_public_key) = "Less"

\* Friends::get_friend_connected: the FriendConnected of a key, or Absent.
get_friend_connected(public_key) ==
    IF in_friends[public_key].status = "Connected" THEN in_friends[public_key]
    ELSE IF out_friends[public_key].status = "Connected" THEN out_friends[public_key]
    ELSE Absent

\* Channeler::connect_out_friend: spawn one connect attempt for the key (a
\* task awaiting connect()).
connect_out_friend(friend_public_key) ==
    connect_tasks' = [connect_tasks EXCEPT ![friend_public_key] = @ + 1]

\* The flat vector of a vector of vectors (total_local_addresses).
RECURSIVE Flatten(_)
Flatten(vecs) ==
    IF vecs = << >> THEN << >> ELSE Head(vecs) \o Flatten(Tail(vecs))

\* LpConfig::{SetLocalAddresses, UpdateFriend, RemoveFriend}
LpSetLocalAddresses(addresses) ==
    [type |-> "SetLocalAddresses", pk |-> 0, addresses |-> addresses]
LpUpdateFriend(pk, addresses) ==
    [type |-> "UpdateFriend", pk |-> pk, addresses |-> addresses]
LpRemoveFriend(pk) ==
    [type |-> "RemoveFriend", pk |-> pk, addresses |-> << >>]

\* The Funder's view of a friend's liveness after it receives msgs.
FunderHears(msgs) ==
    [pk \in PublicKeys |->
        IF \E i \in 1 .. Len(msgs) :
              msgs[i].pk = pk /\ msgs[i].type \in {"Online", "Offline"}
        THEN (CHOOSE m \in {msgs[i] : i \in 1 .. Len(msgs)} :
                 m.pk = pk /\ m.type \in {"Online", "Offline"}).type
        ELSE funder_view[pk]]

\* self.to_funder.send(..): msgs is what one handler sends (at most one message).
SendToFunder(msgs) ==
    /\ to_funder' = msgs
    /\ funder_view' = FunderHears(msgs)

\* What one step of the loop sends and logs: to the Funder, to the Listen
\* Pool, to a friend's config_client, and with warn!/error!.
Outputs(msgs, lp_configs, cp_configs, lines) ==
    /\ SendToFunder(msgs)
    /\ listen_config' = lp_configs
    /\ connector_config' = cp_configs
    /\ log' = lines
    /\ to_remote' = << >>

\* Dropping the mpsc::Sender of session s's overwrite channel ends its send
\* task (overwrite_send_all sees its stream closed).  s = 0: nothing is held.
DropSender(ss, s) ==
    IF s = 0 THEN ss
    ELSE [ss EXCEPT ![s].send = "Done", ![s].opt_item = 0]

\* Store v as the state of the connected friend public_key, in the map
\* get_friend_connected found it in.
SetFriendConnected(public_key, v) ==
    IF in_friends[public_key].status = "Connected"
    THEN /\ in_friends' = [in_friends EXCEPT ![public_key] = v]
         /\ UNCHANGED out_friends
    ELSE /\ out_friends' = [out_friends EXCEPT ![public_key] = v]
         /\ UNCHANGED in_friends

(***************************************************************************)
(* The Channeler: initial state (Channeler::new, channeler_loop).          *)
(***************************************************************************)
ChInit ==
    /\ in_friends = [pk \in PublicKeys |-> Absent]
    /\ out_friends = [pk \in PublicKeys |-> Absent]
    /\ sessions = [s \in Sessions |-> FreeSession]
    /\ conn_events = [pk \in PublicKeys |-> 0]
    /\ connect_tasks = [pk \in PublicKeys |-> 0]
    /\ lp_friends = {}
    /\ loop_result = "Running"
    /\ log = << >>
    /\ to_funder = << >>
    /\ listen_config = << >>
    /\ connector_config = << >>
    /\ to_remote = << >>
    /\ funder_view = [pk \in PublicKeys |-> "Offline"]

(***************************************************************************)
(* handle_from_funder                                                      *)
(***************************************************************************)
OverwriteSend_keep_old(ss, s, t) ==
    [ss EXCEPT ![s].opt_item = IF @ = 0 THEN t ELSE @]

\* The overwrite channel of session s (mpsc::channel(0) drained by
\* overwrite_send_all): a sent item replaces the undelivered one.
OverwriteSend(ss, s, t) == [ss EXCEPT ![s].opt_item = t]

Connected_send_blocking(public_key, friend_connected, t) ==
    /\ friend_connected.opt_sender
    /\ sessions[friend_connected.sid].send = "Running"
    /\ sessions[friend_connected.sid].opt_item = 0
    /\ sessions' = OverwriteSend(sessions, friend_connected.sid, t)
    /\ UNCHANGED <<in_friends, out_friends>>

\* A send whose failure leaves the sender in place.
Connected_send_keeps(public_key, friend_connected, t) ==
    IF friend_connected.opt_sender
          /\ sessions[friend_connected.sid].send = "Running"
    THEN /\ sessions' = OverwriteSend(sessions, friend_connected.sid, t)
         /\ UNCHANGED <<in_friends, out_friends>>
    ELSE UNCHANGED <<in_friends, out_friends, sessions>>

\* Connected::send: with a sender, send the item; if that fails (the send
\* task has ended and dropped the receiver) the sender is removed and later
\* sends fail too; without a sender the send fails.
Connected_send(public_key, friend_connected, t) ==
    IF friend_connected.opt_sender
    THEN IF sessions[friend_connected.sid].send = "Running"
         THEN /\ sessions' = OverwriteSend(sessions, friend_connected.sid, t)
              /\ UNCHANGED <<in_friends, out_friends>>
         ELSE /\ SetFriendConnected(public_key,
                    [friend_connected EXCEPT !.opt_sender = FALSE])
              /\ UNCHANGED sessions
    ELSE UNCHANGED <<in_friends, out_friends, sessions>>

\* FunderToChanneler::Message((public_key, message))
FunderMessage(public_key, message) ==
    /\ loop_result = "Running"
    /\ LET friend_connected == get_friend_connected(public_key)
       IN IF friend_connected = Absent
          THEN /\ UNCHANGED <<in_friends, out_friends, sessions>>
               /\ Outputs(<< >>, << >>, << >>, <<"unavailable friend">>)
          ELSE /\ Connected_send(public_key, friend_connected, message)
               /\ Outputs(<< >>, << >>, << >>, << >>)
    /\ UNCHANGED <<conn_events, connect_tasks, lp_friends, loop_result>>
    /\ UNCHANGED <<kaVars, tcVars, rpVars, scVars, sbVars, msVars>>

\* FunderToChanneler::SetAddress(opt_address)
FunderSetAddress(opt_address) ==
    /\ loop_result = "Running"
    /\ LET addresses == IF opt_address[1] = "Some" THEN opt_address[2] ELSE << >>
       IN Outputs(<< >>, <<LpSetLocalAddresses(addresses)>>, << >>, << >>)
    /\ UNCHANGED <<in_friends, out_friends, sessions, conn_events, connect_tasks,
                   lp_friends, loop_result>>
    /\ UNCHANGED <<kaVars, tcVars, rpVars, scVars, sbVars, msVars>>

\* try_create_friend spawns a connect attempt for this key (the model bounds
\* the attempts outstanding).
WillConnect(friend_public_key) ==
    /\ in_friends[friend_public_key] = Absent
    /\ out_friends[friend_public_key] = Absent
    /\ ~is_listen_friend(friend_public_key)

\* An OutFriend that exists already connected anew as well.
try_create_friend_again(friend_public_key) ==
    IF in_friends[friend_public_key] # Absent
    THEN UNCHANGED <<in_friends, out_friends, connect_tasks>>
    ELSE IF is_listen_friend(friend_public_key)
    THEN /\ in_friends' = [in_friends EXCEPT ![friend_public_key] = Listening]
         /\ UNCHANGED <<out_friends, connect_tasks>>
    ELSE /\ out_friends' = [out_friends EXCEPT ![friend_public_key] = Connecting]
         /\ connect_out_friend(friend_public_key)
         /\ UNCHANGED in_friends

\* A new OutFriend inserted as Connecting with no connect attempt spawned.
try_create_friend_no_attempt(friend_public_key) ==
    IF in_friends[friend_public_key] # Absent \/ out_friends[friend_public_key] # Absent
    THEN UNCHANGED <<in_friends, out_friends, connect_tasks>>
    ELSE IF is_listen_friend(friend_public_key)
    THEN /\ in_friends' = [in_friends EXCEPT ![friend_public_key] = Listening]
         /\ UNCHANGED <<out_friends, connect_tasks>>
    ELSE /\ out_friends' = [out_friends EXCEPT ![friend_public_key] = Connecting]
         /\ UNCHANGED <<in_friends, connect_tasks>>

try_create_friend_connects_too(friend_public_key) ==
    IF in_friends[friend_public_key] # Absent \/ out_friends[friend_public_key] # Absent
    THEN UNCHANGED <<in_friends, out_friends, connect_tasks>>
    ELSE IF is_listen_friend(friend_public_key)
    THEN /\ in_friends' = [in_friends EXCEPT ![friend_public_key] = Listening]
         /\ connect_out_friend(friend_public_key)
         /\ UNCHANGED out_friends
    ELSE /\ out_friends' = [out_friends EXCEPT ![friend_public_key] = Connecting]
         /\ connect_out_friend(friend_public_key)
         /\ UNCHANGED in_friends

\* Channeler::try_create_friend: add the friend if it does not yet exist.
try_create_friend(friend_public_key) ==
    IF in_friends[friend_public_key] # Absent \/ out_friends[friend_public_key] # Absent
    THEN UNCHANGED <<in_friends, out_friends, connect_tasks>>
    ELSE IF is_listen_friend(friend_public_key)
    THEN /\ in_friends' = [in_friends EXCEPT ![friend_public_key] = Listening]
         /\ UNCHANGED <<out_friends, connect_tasks>>
    ELSE /\ out_friends' = [out_friends EXCEPT ![friend_public_key] = Connecting]
         /\ connect_out_friend(friend_public_key)
         /\ UNCHANGED in_friends

\* FunderToChanneler::UpdateFriend(channeler_update_friend)
FunderUpdateFriend(friend_public_key, friend_address, local_addresses) ==
    /\ loop_result = "Running"
    /\ WillConnect(friend_public_key) =>
          connect_tasks[friend_public_key] < MaxConnectTasks
    /\ try_create_friend(friend_public_key)
    /\ IF in_friends'[friend_public_key] # Absent
       THEN /\ Outputs(<< >>,
                       <<LpUpdateFriend(friend_public_key, Flatten(local_addresses))>>,
                       << >>, << >>)
            /\ lp_friends' = lp_friends \cup {friend_public_key}
       ELSE /\ Outputs(<< >>, << >>,
                       IF out_friends'[friend_public_key] # Absent
                       THEN <<[pk |-> friend_public_key, address |-> friend_address]>>
                       ELSE << >>,
                       << >>)
            /\ UNCHANGED lp_friends
    /\ UNCHANGED <<sessions, conn_events, loop_result>>
    /\ UNCHANGED <<kaVars, tcVars, rpVars, scVars, sbVars, msVars>>

\* FunderToChanneler::RemoveFriend(friend_public_key)
FunderRemoveFriend(friend_public_key) ==
    /\ loop_result = "Running"
    /\ IF in_friends[friend_public_key] # Absent
       THEN /\ in_friends' = [in_friends EXCEPT ![friend_public_key] = Absent]
            /\ sessions' = DropSender(sessions, in_friends[friend_public_key].sid)
            /\ Outputs(<< >>, <<LpRemoveFriend(friend_public_key)>>, << >>, << >>)
            /\ lp_friends' = lp_friends \ {friend_public_key}
            /\ UNCHANGED out_friends
       ELSE /\ out_friends' = [out_friends EXCEPT ![friend_public_key] = Absent]
            /\ sessions' = DropSender(sessions, out_friends[friend_public_key].sid)
            /\ Outputs(<< >>, << >>, << >>, << >>)
            /\ UNCHANGED <<in_friends, lp_friends>>
    /\ UNCHANGED <<conn_events, connect_tasks, loop_result>>
    /\ UNCHANGED <<kaVars, tcVars, rpVars, scVars, sbVars, msVars>>

(***************************************************************************)
(* handle_connection                                                       *)
(***************************************************************************)
\* The session slot a newly accepted connection takes (0: none is free).
FreeSlot ==
    IF \E s \in Sessions : sessions[s].recv = "Free"
    THEN CHOOSE s \in Sessions :
            /\ sessions[s].recv = "Free"
            /\ \A r \in Sessions : sessions[r].recv = "Free" => s <= r
    ELSE 0

\* The tasks spawned for an accepted connection: fut_recv forwards the
\* frames of the raw receiver and then ReceiverClosed; overwrite_send_all
\* runs for as long as friend_sender is held (held: the friend stored it).
NewSession(friend_public_key, held) ==
    [pk |-> friend_public_key, recv |-> "Running", from_remote |-> << >>,
     n_sent |-> 0, send |-> IF held THEN "Running" ELSE "Done", opt_item |-> 0,
     funder_got |-> << >>]

AlreadyConnected_never(friend_public_key) == FALSE

\* The arms InFriend::Connected(_) and OutFriendStatus::Connected(_):
\* "Already connected ... Aborting."
AlreadyConnected(friend_public_key) ==
    IF in_friends[friend_public_key] # Absent
    THEN in_friends[friend_public_key].status = "Connected"
    ELSE /\ out_friends[friend_public_key] # Absent
         /\ out_friends[friend_public_key].status = "Connected"

\* The loop takes a ChannelerEvent::Connection for the key: one queued by
\* send_listen_conns_fut ("listen"), or the one a connect attempt sends when
\* its connect() returns Ok(raw_conn) ("connect"); that attempt is then over.
TakeConnection(friend_public_key, from) ==
    IF from = "listen"
    THEN /\ conn_events[friend_public_key] > 0
         /\ conn_events' = [conn_events EXCEPT ![friend_public_key] = @ - 1]
         /\ UNCHANGED connect_tasks
    ELSE /\ connect_tasks[friend_public_key] > 0
         /\ connect_tasks' = [connect_tasks EXCEPT ![friend_public_key] = @ - 1]
         /\ UNCHANGED conn_events

\* ChannelerEvent::Connection((public_key, raw_conn))
HandleConnection(friend_public_key, from) ==
    /\ loop_result = "Running"
    /\ TakeConnection(friend_public_key, from)
    /\ IF AlreadyConnected(friend_public_key)
       THEN /\ UNCHANGED <<in_friends, out_friends, sessions>>
            /\ Outputs(<< >>, << >>, << >>, <<"Already connected">>)
       ELSE /\ FreeSlot # 0
            /\ IF in_friends[friend_public_key] # Absent
               THEN /\ in_friends' =
                          [in_friends EXCEPT ![friend_public_key] = Connected_new(FreeSlot)]
                    /\ UNCHANGED out_friends
               ELSE IF out_friends[friend_public_key] # Absent
               THEN /\ out_friends' =
                          [out_friends EXCEPT ![friend_public_key] = Connected_new(FreeSlot)]
                    /\ UNCHANGED in_friends
               ELSE UNCHANGED <<in_friends, out_friends>>
            /\ sessions' =
                  [sessions EXCEPT ![FreeSlot] =
                      NewSession(friend_public_key,
                                 \/ in_friends[friend_public_key] # Absent
                                 \/ out_friends[friend_public_key] # Absent)]
            /\ Outputs(<<Online(friend_public_key)>>, << >>, << >>, << >>)
    /\ UNCHANGED <<lp_friends, loop_result>>
    /\ UNCHANGED <<kaVars, tcVars, rpVars, scVars, sbVars, msVars>>

(***************************************************************************)
(* handle_friend_event                                                     *)
(***************************************************************************)
NextFrame_last(s) == sessions[s].from_remote[Len(sessions[s].from_remote)]

\* The next item of session s's receiver stream, as send_all forwards it.
NextFrame(s) == Head(sessions[s].from_remote)

\* FriendEvent::IncomingMessage((friend_public_key, data)), sent by the
\* receive task of session s.
HandleIncomingMessage(s) ==
    /\ loop_result = "Running"
    /\ sessions[s].recv = "Running"
    /\ sessions[s].from_remote # << >>
    /\ Outputs(<<Message(sessions[s].pk, NextFrame(s))>>, << >>, << >>, << >>)
    /\ sessions' = [sessions EXCEPT
                       ![s].from_remote = Tail(@),
                       ![s].funder_got = Append(@, NextFrame(s))]
    /\ UNCHANGED <<in_friends, out_friends, conn_events, connect_tasks,
                   lp_friends, loop_result>>
    /\ UNCHANGED <<kaVars, tcVars, rpVars, scVars, sbVars, msVars>>

\* Offline reported for whichever key the receive task names.
ReportOffline_always(friend_public_key) == <<Offline(friend_public_key)>>

\* "Report Funder that the friend is offline", if the friend is connected.
ReportOffline(friend_public_key) ==
    IF get_friend_connected(friend_public_key) # Absent
    THEN <<Offline(friend_public_key)>>
    ELSE << >>

ResetFriend_no_reconnect(friend_public_key) ==
    IF in_friends[friend_public_key] # Absent
    THEN /\ in_friends' = [in_friends EXCEPT ![friend_public_key] = Listening]
         /\ UNCHANGED <<out_friends, connect_tasks>>
    ELSE IF out_friends[friend_public_key] # Absent
    THEN /\ out_friends' = [out_friends EXCEPT ![friend_public_key] = Connecting]
         /\ UNCHANGED <<in_friends, connect_tasks>>
    ELSE UNCHANGED <<in_friends, out_friends, connect_tasks>>

\* ReceiverClosed: an InFriend listens again; an OutFriend is Connecting
\* again and a new connection is requested.
ResetFriend(friend_public_key) ==
    IF in_friends[friend_public_key] # Absent
    THEN /\ in_friends' = [in_friends EXCEPT ![friend_public_key] = Listening]
         /\ UNCHANGED <<out_friends, connect_tasks>>
    ELSE IF out_friends[friend_public_key] # Absent
    THEN /\ out_friends' = [out_friends EXCEPT ![friend_public_key] = Connecting]
         /\ connect_out_friend(friend_public_key)
         /\ UNCHANGED in_friends
    ELSE UNCHANGED <<in_friends, out_friends, connect_tasks>>

\* FriendEvent::ReceiverClosed(friend_public_key): the receiver stream of
\* session s has ended, its receive task has forwarded every frame, sends
\* ReceiverClosed and is done.  (The end of the stream shows to the loop only
\* through this event, so the two are one step.)
HandleReceiverClosed(s) ==
    /\ loop_result = "Running"
    /\ sessions[s].recv = "Running"
    /\ sessions[s].from_remote = << >>
    /\ LET friend_public_key == sessions[s].pk
       IN /\ out_friends[friend_public_key] # Absent =>
                connect_tasks[friend_public_key] < MaxConnectTasks
          /\ Outputs(ReportOffline(friend_public_key), << >>, << >>, << >>)
          /\ ResetFriend(friend_public_key)
          /\ sessions' =
                [DropSender(sessions, get_friend_connected(friend_public_key).sid)
                    EXCEPT ![s] = FreeSession]
    /\ UNCHANGED <<conn_events, lp_friends, loop_result>>
    /\ UNCHANGED <<kaVars, tcVars, rpVars, scVars, sbVars, msVars>>

(***************************************************************************)
(* Terminal events of channeler_loop.                                      *)
(***************************************************************************)
\* The loop returns Err(err) and handles nothing afterwards.
Terminate(err) ==
    /\ loop_result' = err
    /\ Outputs(<< >>, << >>, << >>, << >>)
    /\ UNCHANGED <<in_friends, out_friends, sessions, conn_events, lp_friends>>
    /\ UNCHANGED <<kaVars, tcVars, rpVars, scVars, sbVars, msVars>>

\* ChannelerEvent::ListenerClosed: the stream of listen connections ended.
HandleListenerClosed ==
    /\ loop_result = "Running"
    /\ Terminate("ListenerClosed")
    /\ UNCHANGED connect_tasks

\* ChannelerEvent::ConnectorClosed: connect() of a spawned attempt failed.
HandleConnectorClosed(friend_public_key) ==
    /\ loop_result = "Running"
    /\ connect_tasks[friend_public_key] > 0
    /\ connect_tasks' = [connect_tasks EXCEPT ![friend_public_key] = @ - 1]
    /\ Terminate("ConnectorClosed")

\* The end of the Funder's commands ending the loop as the end of its events
\* does, with Ok(()).
HandleFunderClosed_ok ==
    /\ loop_result = "Running"
    /\ Terminate("Ok")
    /\ UNCHANGED connect_tasks

\* ChannelerEvent::FunderClosed: the stream of Funder commands ended.
HandleFunderClosed ==
    /\ loop_result = "Running"
    /\ Terminate("FunderClosed")
    /\ UNCHANGED connect_tasks

\* The errors a handler returns with `?` when a send or a spawn fails.
HandlerErrors ==
    {"SpawnError", "SendToFunderFailed", "ListenerConfigError", "ConnectorConfigError"}

\* An event is there whose handler sends on to_funder: a connection, or a
\* frame or the end of the stream of a receive task.
FunderSendPending ==
    \/ \E pk \in PublicKeys : conn_events[pk] > 0 \/ connect_tasks[pk] > 0
    \/ \E s \in Sessions : sessions[s].recv = "Running"

\* A handler returns Err(err): a send on to_funder, on listen_config or to a
\* config_client fails (its receiver is gone), or a spawn fails.  The loop
\* returns the error and the Channeler is dropped with whatever the handler
\* had done.
HandlerFails(err) ==
    /\ loop_result = "Running"
    /\ err = "SendToFunderFailed" => FunderSendPending
    /\ Terminate(err)
    /\ UNCHANGED connect_tasks

(***************************************************************************)
(* The spawned tasks and the peers.  These steps are no dispatch of the    *)
(* loop: the loop sends and logs nothing in them.                          *)
(***************************************************************************)
Quiet ==
    /\ log' = << >>
    /\ to_funder' = << >>
    /\ listen_config' = << >>
    /\ connector_config' = << >>
    /\ UNCHANGED <<funder_view, loop_result>>

\* The Listen Pool hands over a connection of an authorized friend; the task
\* send_listen_conns_fut queues it as ChannelerEvent::Connection.
ListenerConnection(pk) ==
    /\ loop_result = "Running"
    /\ pk \in lp_friends
    /\ conn_events[pk] < MaxConnEvents
    /\ conn_events' = [conn_events EXCEPT ![pk] = @ + 1]
    /\ Quiet
    /\ to_remote' = << >>
    /\ UNCHANGED <<in_friends, out_friends, sessions, connect_tasks, lp_friends>>
    /\ UNCHANGED <<kaVars, tcVars, rpVars, scVars, sbVars, msVars>>

\* The frames the peers have sent on the open sessions.
RECURSIVE FramesSent(_)
FramesSent(S) ==
    IF S = {} THEN 0
    ELSE LET s == CHOOSE x \in S : TRUE
         IN sessions[s].n_sent + FramesSent(S \ {s})

\* The remote peer sends its next frame on session s.  The peer numbers its
\* frames, so that a lost, repeated, changed or reordered frame shows.
PeerSend(s) ==
    /\ loop_result = "Running"
    /\ sessions[s].recv = "Running"
    /\ FramesSent(Sessions) < MaxFrames
    /\ sessions' = [sessions EXCEPT
                       ![s].n_sent = @ + 1,
                       ![s].from_remote = Append(@, sessions[s].n_sent + 1)]
    /\ Quiet
    /\ to_remote' = << >>
    /\ UNCHANGED <<in_friends, out_friends, conn_events, connect_tasks, lp_friends>>
    /\ UNCHANGED <<kaVars, tcVars, rpVars, scVars, sbVars, msVars>>

\* overwrite_send_all hands the item it holds to the raw sender once the
\* peer reads.
PeerRead(s) ==
    /\ loop_result = "Running"
    /\ sessions[s].send = "Running"
    /\ sessions[s].opt_item # 0
    /\ to_remote' = <<[sid |-> s, pk |-> sessions[s].pk, data |-> sessions[s].opt_item]>>
    /\ sessions' = [sessions EXCEPT ![s].opt_item = 0]
    /\ Quiet
    /\ UNCHANGED <<in_friends, out_friends, conn_events, connect_tasks, lp_friends>>
    /\ UNCHANGED <<kaVars, tcVars, rpVars, scVars, sbVars, msVars>>

\* The raw sender of session s fails (the peer dropped its receiver):
\* overwrite_send_all returns an error and drops the overwrite channel.
SendTaskFails(s) ==
    /\ loop_result = "Running"
    /\ sessions[s].send = "Running"
    /\ sessions' = DropSender(sessions, s)
    /\ Quiet
    /\ to_remote' = << >>
    /\ UNCHANGED <<in_friends, out_friends, conn_events, connect_tasks, lp_friends>>
    /\ UNCHANGED <<kaVars, tcVars, rpVars, scVars, sbVars, msVars>>

ChNext ==
    \/ \E pk \in FriendKeys, m \in Payloads : FunderMessage(pk, m)
    \/ \E a \in OptAddresses : FunderSetAddress(a)
    \/ \E pk \in FriendKeys, fa \in FriendAddresses, la \in LocalAddresses :
          FunderUpdateFriend(pk, fa, la)
    \/ \E pk \in FriendKeys : FunderRemoveFriend(pk)
    \/ \E pk \in FriendKeys, from \in {"listen", "connect"} : HandleConnection(pk, from)
    \/ \E s \in Sessions : HandleIncomingMessage(s)
    \/ \E s \in Sessions : HandleReceiverClosed(s)
    \/ HandleListenerClosed
    \/ \E pk \in FriendKeys : HandleConnectorClosed(pk)
    \/ HandleFunderClosed
    \/ \E err \in HandlerErrors : HandlerFails(err)
    \/ \E pk \in FriendKeys : ListenerConnection(pk)
    \/ \E s \in Sessions : PeerSend(s)
    \/ \E s \in Sessions : PeerRead(s)
    \/ \E s \in Sessions : SendTaskFails(s)

(***************************************************************************)
(* The keepalive loop (inner_keepalive_loop).  The loop handles one event  *)
(* at a time; each arm of its match is one action.                         *)
(***************************************************************************)
KeepaliveTicks == 0 .. MaxKeepaliveTicks
KaPayloads == 1 .. MaxKaPayload

\* KaMessage::{KeepAlive, Message}
KaMessage_KeepAlive == [type |-> "KeepAlive", data |-> 0]
KaMessage_Message(message) == [type |-> "Message", data |-> message]

\* proto::keepalive::serialize: a tagged encoding of a KaMessage.
serialize_ka_message(ka_message) ==
    IF ka_message.type = "KeepAlive" THEN <<0>> ELSE <<1, ka_message.data>>

\* Err for bytes that are no encoding of a KaMessage.
deserialize_ka_message(ser_ka_message) ==
    IF ser_ka_message = <<0>>
    THEN [ok |-> TRUE, ka_message |-> KaMessage_KeepAlive]
    ELSE IF Len(ser_ka_message) = 2 /\ ser_ka_message[1] = 1
    THEN [ok |-> TRUE, ka_message |-> KaMessage_Message(ser_ka_message[2])]
    ELSE [ok |-> FALSE, ka_message |-> KaMessage_KeepAlive]

\* What the remote can put on the wire: the encodings, and bytes that are none.
WireFrames ==
    {serialize_ka_message(KaMessage_KeepAlive)}
        \cup {serialize_ka_message(KaMessage_Message(d)) : d \in KaPayloads}
        \cup {<<2>>}

\* usize::saturating_sub
saturating_sub(a, b) == IF a >= b THEN a - b ELSE 0

\* let mut ticks_to_close = keepalive_ticks;
\* let mut ticks_to_send_keepalive = keepalive_ticks / 2;
KaStart(n) ==
    /\ keepalive_ticks = n
    /\ ticks_to_close = n
    /\ ticks_to_send_keepalive = n \div 2
    /\ ka_result = "Running"
    /\ ka_to_remote = << >>
    /\ ka_to_user = << >>
    /\ silent_ticks = 0
    /\ out_ticks = 0
    /\ ka_event = <<"None">>

KaInit == \E n \in KeepaliveTicks : KaStart(n)

\* The loop returns: nothing is handled afterwards.
KaReturn(result) ==
    /\ ka_result' = result
    /\ ka_to_remote' = << >>
    /\ ka_to_user' = << >>

ticks_to_close_on_frame_kept == ticks_to_close

\* ticks_to_close = keepalive_ticks, for a frame that was deserialized.
ticks_to_close_on_frame == keepalive_ticks

SentToUser_all(ka_message) == <<ka_message.data>>

\* if let KaMessage::Message(message) = ka_message { to_user.send(message) }:
\* what a frame from the remote makes the loop send to the user.
SentToUser(ka_message) ==
    IF ka_message.type = "Message" THEN <<ka_message.data>> ELSE << >>

\* KeepAliveEvent::MessageFromRemote(ser_ka_message).  send_ok: whether
\* to_user.send succeeds (it fails once the user dropped its receiver).
KaMessageFromRemote(ser_ka_message, send_ok) ==
    /\ ka_result = "Running"
    /\ LET res == deserialize_ka_message(ser_ka_message)
       IN IF ~res.ok
          THEN /\ KaReturn("DeserializeError")
               /\ UNCHANGED <<ticks_to_close, silent_ticks>>
          ELSE /\ ticks_to_close' = ticks_to_close_on_frame
               /\ silent_ticks' = 0
               /\ IF SentToUser(res.ka_message) # << >>
                  THEN IF send_ok
                       THEN /\ ka_to_user' = SentToUser(res.ka_message)
                            /\ ka_to_remote' = << >>
                            /\ UNCHANGED ka_result
                       ELSE KaReturn("SendToUserError")
                  ELSE /\ send_ok
                       /\ ka_to_user' = << >>
                       /\ ka_to_remote' = << >>
                       /\ UNCHANGED ka_result
    /\ ka_event' = <<"MessageFromRemote", ser_ka_message>>
    /\ UNCHANGED <<keepalive_ticks, ticks_to_send_keepalive, out_ticks>>
    /\ UNCHANGED <<chVars, tcVars, rpVars, scVars, sbVars, msVars>>

ticks_to_send_after_user_message_kept == ticks_to_send_keepalive

\* ticks_to_send_keepalive = keepalive_ticks / 2, after a user message was sent.
ticks_to_send_after_user_message == keepalive_ticks \div 2

\* KeepAliveEvent::MessageFromUser(message).  send_ok: whether
\* to_remote.send succeeds.
KaMessageFromUser(message, send_ok) ==
    /\ ka_result = "Running"
    /\ LET ser_ka_message == serialize_ka_message(KaMessage_Message(message))
       IN IF send_ok
          THEN /\ ka_to_remote' = <<ser_ka_message>>
               /\ ka_to_user' = << >>
               /\ ticks_to_send_keepalive' = ticks_to_send_after_user_message
               /\ out_ticks' = 0
               /\ UNCHANGED ka_result
          ELSE /\ KaReturn("SendToRemoteError")
               /\ UNCHANGED <<ticks_to_send_keepalive, out_ticks>>
    /\ ka_event' = <<"MessageFromUser", message>>
    /\ UNCHANGED <<keepalive_ticks, ticks_to_close, silent_ticks>>
    /\ UNCHANGED <<chVars, tcVars, rpVars, scVars, sbVars, msVars>>

\* KeepAliveEvent::TimerTick.  send_ok: whether to_remote.send succeeds,
\* should a keepalive be sent.
KaTimerTick(send_ok) ==
    /\ ka_result = "Running"
    /\ silent_ticks' = silent_ticks + 1
    /\ ticks_to_close' = saturating_sub(ticks_to_close, 1)
    /\ IF ticks_to_close' = 0
       THEN /\ KaReturn("RemoteTimeout")
            /\ send_ok
            /\ ticks_to_send_keepalive' = saturating_sub(ticks_to_send_keepalive, 1)
            /\ out_ticks' = out_ticks + 1
       ELSE IF saturating_sub(ticks_to_send_keepalive, 1) = 0
       THEN IF send_ok
            THEN /\ ka_to_remote' = <<serialize_ka_message(KaMessage_KeepAlive)>>
                 /\ ka_to_user' = << >>
                 /\ ticks_to_send_keepalive' = keepalive_ticks \div 2
                 /\ out_ticks' = 0
                 /\ UNCHANGED ka_result
            ELSE /\ KaReturn("SendToRemoteError")
                 /\ ticks_to_send_keepalive' = 0
                 /\ out_ticks' = out_ticks + 1
       ELSE /\ send_ok
            /\ ka_to_remote' = << >>
            /\ ka_to_user' = << >>
            /\ ticks_to_send_keepalive' = saturating_sub(ticks_to_send_keepalive, 1)
            /\ out_ticks' = out_ticks + 1
            /\ UNCHANGED ka_result
    /\ ka_event' = <<"TimerTick">>
    /\ UNCHANGED keepalive_ticks
    /\ UNCHANGED <<chVars, tcVars, rpVars, scVars, sbVars, msVars>>

\* The timer's end taken for a break out of the loop.
KaTimerClosed_break ==
    /\ ka_result = "Running"
    /\ KaReturn("Ok")
    /\ ka_event' = <<"TimerClosed">>
    /\ UNCHANGED <<keepalive_ticks, ticks_to_close, ticks_to_send_keepalive,
                   silent_ticks, out_ticks>>
    /\ UNCHANGED <<chVars, tcVars, rpVars, scVars, sbVars, msVars>>

\* KeepAliveEvent::TimerClosed
KaTimerClosed ==
    /\ ka_result = "Running"
    /\ KaReturn("TimerClosed")
    /\ ka_event' = <<"TimerClosed">>
    /\ UNCHANGED <<keepalive_ticks, ticks_to_close, ticks_to_send_keepalive,
                   silent_ticks, out_ticks>>
    /\ UNCHANGED <<chVars, tcVars, rpVars, scVars, sbVars, msVars>>

\* KeepAliveEvent::TunnelChannelClosed: break, and the loop returns Ok(()).
KaTunnelChannelClosed ==
    /\ ka_result = "Running"
    /\ KaReturn("Ok")
    /\ ka_event' = <<"TunnelChannelClosed">>
    /\ UNCHANGED <<keepalive_ticks, ticks_to_close, ticks_to_send_keepalive,
                   silent_ticks, out_ticks>>
    /\ UNCHANGED <<chVars, tcVars, rpVars, scVars, sbVars, msVars>>

\* KeepAliveEvent::UserChannelClosed: break, and the loop returns Ok(()).
KaUserChannelClosed ==
    /\ ka_result = "Running"
    /\ KaReturn("Ok")
    /\ ka_event' = <<"UserChannelClosed">>
    /\ UNCHANGED <<keepalive_ticks, ticks_to_close, ticks_to_send_keepalive,
                   silent_ticks, out_ticks>>
    /\ UNCHANGED <<chVars, tcVars, rpVars, scVars, sbVars, msVars>>

KaNext ==
    \/ \E f \in WireFrames, send_ok \in BOOLEAN : KaMessageFromRemote(f, send_ok)
    \/ \E m \in KaPayloads, send_ok \in BOOLEAN : KaMessageFromUser(m, send_ok)
    \/ \E send_ok \in BOOLEAN : KaTimerTick(send_ok)
    \/ KaTimerClosed
    \/ KaTunnelChannelClosed
    \/ KaUserChannelClosed

(***************************************************************************)
(* The token channel of one friendship: the two endpoints of the channel,  *)
(* each with its status (TcStatus), its move_token_counter and its mutual  *)
(* credits.                                                                *)
(***************************************************************************)
Endpoints == {"a", "b"}
Peer(e) == IF e = "a" THEN "b" ELSE "a"

\* The public keys of the two endpoints (pk_a, pk_b of move_token_basic.rs).
tc_public_key == [a |-> 170, b |-> 187]

Currencies == {"FST"}
RequestIds == 1 .. MaxRequestId

\* Option::None of last_move_token_in and of remote_reset_terms.
None == [tag |-> "None"]

\* enum TcStatus
ConsistentIn(move_token_in) ==
    [tag |-> "ConsistentIn", move_token_in |-> move_token_in]

ConsistentOut(move_token_out, last_move_token_in) ==
    [tag |-> "ConsistentOut", move_token_out |-> move_token_out,
     last_move_token_in |-> last_move_token_in]

Inconsistent(local_reset_terms, remote_reset_terms) ==
    [tag |-> "Inconsistent", local_reset_terms |-> local_reset_terms,
     remote_reset_terms |-> remote_reset_terms]

\* The credit operations a MoveToken carries.
RequestSendFunds(c, r, p) ==
    [op |-> "RequestSendFunds", currency |-> c, request_id |-> r, dest_payment |-> p]
ResponseSendFunds(c, r) ==
    [op |-> "ResponseSendFunds", currency |-> c, request_id |-> r, dest_payment |-> 0]
FailureSendFunds(c, r) ==
    [op |-> "FailureSendFunds", currency |-> c, request_id |-> r, dest_payment |-> 0]

Operations ==
    {RequestSendFunds(c, r, 1) : c \in Currencies, r \in RequestIds}
        \cup {ResponseSendFunds(c, r) : c \in Currencies, r \in RequestIds}
        \cup {FailureSendFunds(c, r) : c \in Currencies, r \in RequestIds}

\* The batches of operations of the model: none, one operation, or a
\* request followed by another operation.
OperationLists ==
    {<< >>} \cup {<<o>> : o \in Operations}
            \cup {<<RequestSendFunds(c, r, 1), ResponseSendFunds(c, r)>> :
                      c \in Currencies, r \in RequestIds}

\* The hash that makes new_token: it covers the previous token, the ordered
\* operations and the counter, and no two contents share a hash.
hash_token(old_token, operations, counter) ==
    <<"token", old_token, operations, counter>>

\* A signed MoveToken.
MoveToken(operations, old_token, counter) ==
    [operations |-> operations, old_token |-> old_token,
     move_token_counter |-> counter,
     new_token |-> hash_token(old_token, operations, counter)]

\* MoveTokenHashed: the MoveToken with its operations left out.
hashed(move_token) ==
    [old_token |-> move_token.old_token,
     move_token_counter |-> move_token.move_token_counter,
     new_token |-> move_token.new_token]

\* The token both endpoints of a new channel start from: it is made of the
\* two public keys, so both endpoints compute the same one.
initial_move_token ==
    MoveToken(<< >>, <<"init", tc_public_key["a"], tc_public_key["b"]>>, 0)

\* A mutual credit (McBalance and the two sets of pending transactions).
\* A pending transaction is kept as <<request_id, dest_payment>>.
McInit ==
    [balance |-> 0, local_max_debt |-> MaxDebt, remote_max_debt |-> MaxDebt,
     local_pending_debt |-> 0, remote_pending_debt |-> 0,
     local_pending |-> {}, remote_pending |-> {}]

PendingIds(pending) == {t[1] : t \in pending}
PendingOf(pending, r) == CHOOSE t \in pending : t[1] = r

\* The outcome of one operation on a mutual credit.
McOk(mc) == [ok |-> TRUE, mc |-> mc]
McErr(mc) == [ok |-> FALSE, mc |-> mc]

\* One operation of a MoveToken that the peer sent, applied to the mutual
\* credit of its currency.
process_incoming(mc, operation) ==
    LET r == operation.request_id
        p == operation.dest_payment
    IN  CASE operation.op = "RequestSendFunds" ->
                IF r \in PendingIds(mc.remote_pending)
                THEN McErr(mc)
                ELSE IF mc.balance + mc.remote_pending_debt + p > mc.remote_max_debt
                THEN McErr(mc)
                ELSE McOk([mc EXCEPT !.remote_pending = @ \cup {<<r, p>>},
                                     !.remote_pending_debt = @ + p])
          [] operation.op = "ResponseSendFunds" ->
                IF r \notin PendingIds(mc.local_pending)
                THEN McErr(mc)
                ELSE LET t == PendingOf(mc.local_pending, r)
                     IN  McOk([mc EXCEPT !.local_pending = @ \ {t},
                                         !.local_pending_debt = @ - t[2],
                                         !.balance = @ - t[2]])
          [] OTHER ->
                IF r \notin PendingIds(mc.local_pending)
                THEN McErr(mc)
                ELSE LET t == PendingOf(mc.local_pending, r)
                     IN  McOk([mc EXCEPT !.local_pending = @ \ {t},
                                         !.local_pending_debt = @ - t[2]])

\* A request that is sent whatever debt it brings.
local_debt_any(mc, p) == TRUE

\* A request of payment p may be sent when the debt it may bring stays within
\* local_max_debt.
local_debt_within_max(mc, p) ==
    mc.balance - (mc.local_pending_debt + p) >= 0 - mc.local_max_debt

\* Outgoing operations where a response or a failure for a request that is
\* not pending passes and changes nothing.
process_outgoing_lenient(mc, operation) ==
    LET r == operation.request_id
        p == operation.dest_payment
    IN  IF operation.op = "RequestSendFunds"
        THEN IF r \in PendingIds(mc.local_pending)
                    \/ ~local_debt_within_max(mc, p)
             THEN McErr(mc)
             ELSE McOk([mc EXCEPT !.local_pending = @ \cup {<<r, p>>},
                                  !.local_pending_debt = @ + p])
        ELSE IF r \notin PendingIds(mc.remote_pending)
        THEN McOk(mc)
        ELSE LET t == PendingOf(mc.remote_pending, r)
             IN  McOk([mc EXCEPT !.remote_pending = @ \ {t},
                                 !.remote_pending_debt = @ - t[2],
                                 !.balance =
                                     IF operation.op = "ResponseSendFunds"
                                     THEN @ + t[2] ELSE @])

\* One operation of a MoveToken this endpoint sends.
process_outgoing(mc, operation) ==
    LET r == operation.request_id
        p == operation.dest_payment
    IN  CASE operation.op = "RequestSendFunds" ->
                IF r \in PendingIds(mc.local_pending)
                THEN McErr(mc)
                ELSE IF ~local_debt_within_max(mc, p)
                THEN McErr(mc)
                ELSE McOk([mc EXCEPT !.local_pending = @ \cup {<<r, p>>},
                                     !.local_pending_debt = @ + p])
          [] operation.op = "ResponseSendFunds" ->
                IF r \notin PendingIds(mc.remote_pending)
                THEN McErr(mc)
                ELSE LET t == PendingOf(mc.remote_pending, r)
                     IN  McOk([mc EXCEPT !.remote_pending = @ \ {t},
                                         !.remote_pending_debt = @ - t[2],
                                         !.balance = @ + t[2]])
          [] OTHER ->
                IF r \notin PendingIds(mc.remote_pending)
                THEN McErr(mc)
                ELSE LET t == PendingOf(mc.remote_pending, r)
                     IN  McOk([mc EXCEPT !.remote_pending = @ \ {t},
                                         !.remote_pending_debt = @ - t[2]])

\* The operations of a batch one after the other, stopping at the first that
\* fails: ok and the mutual credits reached.
RECURSIVE process_operations_list(_, _, _)
process_operations_list(mcs, operations, incoming) ==
    IF operations = << >>
    THEN [ok |-> TRUE, mcs |-> mcs]
    ELSE LET operation == Head(operations)
             res == IF incoming
                    THEN process_incoming(mcs[operation.currency], operation)
                    ELSE process_outgoing(mcs[operation.currency], operation)
         IN  IF res.ok
             THEN process_operations_list(
                      [mcs EXCEPT ![operation.currency] = res.mc],
                      Tail(operations), incoming)
             ELSE [ok |-> FALSE, mcs |-> mcs]

\* A batch whose failure keeps the effects of the operations before it.
process_operations_partial(mcs, operations, incoming) ==
    process_operations_list(mcs, operations, incoming)

\* A batch is applied whole or not at all.
process_operations(mcs, operations, incoming) ==
    LET res == process_operations_list(mcs, operations, incoming)
    IN  IF res.ok THEN res ELSE [ok |-> FALSE, mcs |-> mcs]

Max(x, y) == IF x >= y THEN x ELSE y

\* ResetTerms: the reset token is the signature of the endpoint that proposes
\* the terms, a function of the terms.
reset_token(e, counter, balances) ==
    <<"reset", tc_public_key[e], counter, balances>>

ResetTerms(e, counter, balances) ==
    [reset_token |-> reset_token(e, counter, balances),
     move_token_counter |-> counter, balances |-> balances]

\* The balances of the mutual credits, by currency.
list_balances(mcs) == [c \in Currencies |-> mcs[c].balance]

\* The MoveToken that stands for reset terms: it carries no operations and
\* the tokens after the reset chain from the reset token.
reset_move_token(terms) ==
    [operations |-> << >>, old_token |-> terms.reset_token,
     move_token_counter |-> terms.move_token_counter,
     new_token |-> terms.reset_token]

\* The latest token of the channel as the status records it.
last_token(status) ==
    CASE status.tag = "ConsistentIn" -> status.move_token_in.new_token
      [] status.tag = "ConsistentOut" -> status.move_token_out.new_token
      [] OTHER -> status.local_reset_terms.reset_token

\* The counter of the reset terms an endpoint publishes: beyond its own
\* counter and beyond the counters it has seen.
reset_counter_own(counter, seen) == counter + 1

\* Reset terms that start the counter of the channel over.
reset_counter_restart(counter, seen) == 0

reset_counter(counter, seen) == Max(counter, seen) + 1

\* set_inconsistent: the local reset terms are made of the current balances
\* and of a counter beyond the endpoint's own and beyond every counter it was
\* sent, the one of the MoveToken it has just refused included.
set_inconsistent(e, counter, mcs, seen) ==
    Inconsistent(ResetTerms(e, reset_counter(counter, Max(tc_seen[e], seen)),
                            list_balances(mcs)),
                 None)

\* The outcome of a received MoveToken: the status, the counter and the
\* mutual credits after it, and what is reported.
TcOutput(status, counter, mcs, result) ==
    [status |-> status, counter |-> counter, mcs |-> mcs, result |-> result]

\* A received MoveToken whose place in the chain was found right: its counter
\* must be the next one and its operations are applied as a batch.
handle_incoming_token_match(e, status, counter, mcs, move_token) ==
    LET res == process_operations(mcs, move_token.operations, TRUE)
    IN  IF move_token.move_token_counter # counter + 1
        THEN TcOutput(set_inconsistent(e, counter, mcs,
                                       move_token.move_token_counter),
                      counter, mcs, "InvalidMoveTokenCounter")
        ELSE IF res.ok
        THEN TcOutput(ConsistentIn(hashed(move_token)),
                      move_token.move_token_counter, res.mcs, "Received")
        ELSE TcOutput(set_inconsistent(e, counter, res.mcs,
                                       move_token.move_token_counter),
                      counter, res.mcs, "InvalidOperations")

\* A MoveToken received in ConsistentIn(h): the MoveToken of h once more
\* changes nothing.
duplicate_in_never(status, move_token) == FALSE

duplicate_in(status, move_token) == hashed(move_token) = status.move_token_in

\* A MoveToken received in ConsistentOut(m, last_in): last_in once more
\* changes nothing.
retransmission_of_last_in_never(status, move_token) == FALSE

retransmission_of_last_in(status, move_token) ==
    hashed(move_token) = status.last_move_token_in

\* A MoveToken received while Inconsistent that chains from the local reset
\* token and is taken as the reset of the channel.
handle_in_move_token_inconsistent_reset(status, counter, mcs, move_token) ==
    IF move_token.old_token = status.local_reset_terms.reset_token
    THEN TcOutput(ConsistentIn(hashed(move_token)),
                  move_token.move_token_counter, mcs, "Received")
    ELSE TcOutput(status, counter, mcs, "Inconsistent")

\* A MoveToken received while Inconsistent changes nothing.
handle_in_move_token_inconsistent(status, counter, mcs, move_token) ==
    TcOutput(status, counter, mcs, "Inconsistent")

\* handle_in_move_token: the receipt of a MoveToken from the peer.
handle_in_move_token(e, status, counter, mcs, move_token) ==
    CASE status.tag = "ConsistentIn" ->
            IF duplicate_in(status, move_token)
            THEN TcOutput(status, counter, mcs, "Duplicate")
            ELSE IF move_token.old_token = status.move_token_in.new_token
            THEN handle_incoming_token_match(e, status, counter, mcs, move_token)
            ELSE TcOutput(set_inconsistent(e, counter, mcs,
                                           move_token.move_token_counter),
                          counter, mcs, "ChainInconsistency")
      [] status.tag = "ConsistentOut" ->
            IF retransmission_of_last_in(status, move_token)
            THEN TcOutput(status, counter, mcs, "Duplicate")
            ELSE IF move_token.old_token = status.move_token_out.new_token
            THEN handle_incoming_token_match(e, status, counter, mcs, move_token)
            ELSE TcOutput(set_inconsistent(e, counter, mcs,
                                           move_token.move_token_counter),
                          counter, mcs, "ChainInconsistency")
      [] OTHER ->
            handle_in_move_token_inconsistent(status, counter, mcs, move_token)

\* A new channel whose endpoints both start as the sender.
initial_status_out(e) == ConsistentOut(initial_move_token, None)

\* The status of a new channel: the endpoint with the smaller public key
\* starts as if it had sent the initial token, and the other as if it had
\* received it.
initial_status(e) ==
    IF tc_public_key[e] < tc_public_key[Peer(e)]
    THEN ConsistentOut(initial_move_token, None)
    ELSE ConsistentIn(hashed(initial_move_token))

\* A new channel.
TcInit ==
    /\ tc_status = [e \in Endpoints |-> initial_status(e)]
    /\ move_token_counter = [e \in Endpoints |-> 0]
    /\ mutual_credits = [e \in Endpoints |-> [c \in Currencies |-> McInit]]
    /\ tc_online = FALSE
    /\ tc_sent = [e \in Endpoints |-> << >>]
    /\ tc_seen = [e \in Endpoints |-> 0]
    /\ tc_chain = [e \in Endpoints |-> <<initial_move_token>>]
    /\ tc_event = [type |-> "None"]

\* DirectionalTokenChannel::begin_outgoing_move_token: None unless the last
\* MoveToken of the channel was an incoming one.
tc_begin_outgoing_move_token(e) ==
    IF tc_status[e].tag = "ConsistentIn"
    THEN [tag |-> "Some", old_token |-> tc_status[e].move_token_in.new_token]
    ELSE None

\* MessengerState::begin_outgoing_move_token always succeeding.
begin_outgoing_move_token_always(e) ==
    [ok |-> TRUE, old_token |-> last_token(tc_status[e])]

\* MessengerState::begin_outgoing_move_token
begin_outgoing_move_token(e) ==
    LET opt == tc_begin_outgoing_move_token(e)
    IN  IF opt = None
        THEN [ok |-> FALSE, error |-> "TokenChannelAlreadyOutgoing"]
        ELSE [ok |-> TRUE, old_token |-> opt.old_token]

\* The counter of a new outgoing MoveToken.
next_move_token_counter_same(counter) == counter

next_move_token_counter(counter) == counter + 1

\* handle_out_move_token: the endpoint builds and signs a MoveToken with the
\* operations it wants to send, and holds it as its outgoing message.
SendMoveToken(e, operations) ==
    /\ tc_status[e].tag # "Inconsistent"
    /\ move_token_counter[e] < MaxMoveTokenCounter
    /\ LET begin == begin_outgoing_move_token(e)
           res == process_operations(mutual_credits[e], operations, FALSE)
           counter == next_move_token_counter(move_token_counter[e])
       IN  IF ~begin.ok
           THEN /\ tc_event' = [type |-> "SendMoveToken", endpoint |-> e,
                                result |-> begin.error]
                /\ UNCHANGED <<tc_status, move_token_counter, mutual_credits,
                               tc_sent, tc_seen, tc_chain>>
           ELSE LET move_token == MoveToken(operations, begin.old_token, counter)
                    last_in == IF tc_status[e].tag = "ConsistentIn"
                               THEN tc_status[e].move_token_in
                               ELSE tc_status[e].last_move_token_in
                IN  /\ res.ok
                    /\ tc_status' = [tc_status EXCEPT
                                        ![e] = ConsistentOut(move_token, last_in)]
                    /\ move_token_counter' =
                          [move_token_counter EXCEPT ![e] = counter]
                    /\ mutual_credits' = [mutual_credits EXCEPT ![e] = res.mcs]
                    /\ tc_sent' = [tc_sent EXCEPT ![e] = Append(@, counter)]
                    /\ tc_seen' = [tc_seen EXCEPT ![e] = Max(@, counter)]
                    /\ tc_chain' = [tc_chain EXCEPT ![e] = Append(@, move_token)]
                    /\ tc_event' = [type |-> "SendMoveToken", endpoint |-> e,
                                    result |-> "Sent"]
    /\ UNCHANGED tc_online
    /\ UNCHANGED <<chVars, kaVars, rpVars, scVars, sbVars, msVars>>

\* MessengerState::apply_neighbor_move_token: the MoveToken is handed to the
\* token channel, whose error is returned as ReceiveMoveTokenError.
apply_neighbor_move_token(e, move_token) ==
    LET out == handle_in_move_token(e, tc_status[e], move_token_counter[e],
                                    mutual_credits[e], move_token)
    IN  IF out.result \in {"Received", "Duplicate"}
        THEN [ok |-> TRUE, out |-> out]
        ELSE [ok |-> FALSE, out |-> out]

\* A token that is no token of the channel.
BadToken == <<"bad">>

\* The MoveToken the peer holds as its outgoing message, which it sends and
\* sends again.
PeerOutgoing(e) ==
    IF tc_status[Peer(e)].tag = "ConsistentOut"
    THEN {tc_status[Peer(e)].move_token_out}
    ELSE {}

\* MoveTokens of a peer that went wrong: off the chain, with a skipped
\* counter, or with operations that do not validate.  MoveTokens are signed,
\* so a MoveToken the endpoint accepts is one its peer built.
InvalidMoveTokens(e) ==
    LET last == last_token(tc_status[e])
        counter == move_token_counter[e]
    IN  {MoveToken(<< >>, BadToken, counter + 1),
         MoveToken(<< >>, last, counter + 2)}
            \cup {MoveToken(operations, last, counter + 1) :
                      operations \in
                          {l \in OperationLists :
                              ~process_operations(mutual_credits[e], l, TRUE).ok}}

\* handle_in_move_token for a MoveToken that arrives from the peer.  Receipt
\* is followed up to the bound of the counter.
ReceiveMoveToken(e, move_token) ==
    /\ tc_online
    /\ move_token_counter[e] <= MaxMoveTokenCounter
    /\ LET res == apply_neighbor_move_token(e, move_token)
           out == res.out
       IN  /\ tc_status' = [tc_status EXCEPT ![e] = out.status]
           /\ move_token_counter' = [move_token_counter EXCEPT ![e] = out.counter]
           /\ mutual_credits' = [mutual_credits EXCEPT ![e] = out.mcs]
           /\ tc_chain' = [tc_chain EXCEPT
                              ![e] = IF out.result = "Received"
                                     THEN Append(@, move_token) ELSE @]
           /\ tc_event' = [type |-> "ReceiveMoveToken", endpoint |-> e,
                           result |-> IF res.ok THEN out.result
                                      ELSE "ReceiveMoveTokenError",
                           error |-> IF res.ok THEN "None" ELSE out.result]
    /\ tc_seen' = [tc_seen EXCEPT ![e] = Max(@, move_token.move_token_counter)]
    /\ UNCHANGED <<tc_online, tc_sent>>
    /\ UNCHANGED <<chVars, kaVars, rpVars, scVars, sbVars, msVars>>

\* RouterOp::SetFriendOnline: the transport to the friend is up.
SetFriendOnline ==
    /\ ~tc_online
    /\ tc_online' = TRUE
    /\ tc_event' = [type |-> "SetFriendOnline"]
    /\ UNCHANGED <<tc_status, move_token_counter, mutual_credits, tc_sent,
                   tc_seen, tc_chain>>
    /\ UNCHANGED <<chVars, kaVars, rpVars, scVars, sbVars, msVars>>

\* RouterOp::SetFriendOffline: the transport to the friend is down.
SetFriendOffline ==
    /\ tc_online
    /\ tc_online' = FALSE
    /\ tc_event' = [type |-> "SetFriendOffline"]
    /\ UNCHANGED <<tc_status, move_token_counter, mutual_credits, tc_sent,
                   tc_seen, tc_chain>>
    /\ UNCHANGED <<chVars, kaVars, rpVars, scVars, sbVars, msVars>>

\* set_inconsistent_remote_terms: the reset terms the peer published arrive
\* and are stored.
ReceiveResetTerms(e) ==
    /\ tc_online
    /\ tc_status[e].tag = "Inconsistent"
    /\ tc_status[Peer(e)].tag = "Inconsistent"
    /\ tc_status[e].remote_reset_terms # tc_status[Peer(e)].local_reset_terms
    /\ tc_status' = [tc_status EXCEPT
                        ![e].remote_reset_terms =
                            tc_status[Peer(e)].local_reset_terms]
    /\ tc_event' = [type |-> "ReceiveResetTerms", endpoint |-> e]
    /\ UNCHANGED <<move_token_counter, mutual_credits, tc_online, tc_sent,
                   tc_seen, tc_chain>>
    /\ UNCHANGED <<chVars, kaVars, rpVars, scVars, sbVars, msVars>>

\* A reset that starts the mutual credits over as those of a new channel.
reset_mutual_credits_new(balances) == [c \in Currencies |-> McInit]

\* The mutual credits after a reset: the balances of the terms, no pending
\* transactions and no pending debts.
reset_mutual_credits(balances) ==
    [c \in Currencies |-> [McInit EXCEPT !.balance = balances[c]]]

\* The balances of the peer's terms as this endpoint counts them.
mirror(balances) == [c \in Currencies |-> 0 - balances[c]]

\* Accept remote: the operator accepts the reset terms of the peer.  A reset
\* that takes the counter one step beyond the bound is still followed.
AcceptRemoteReset(e) ==
    /\ tc_status[e].tag = "Inconsistent"
    /\ tc_status[e].remote_reset_terms # None
    /\ LET terms == tc_status[e].remote_reset_terms
           move_token == reset_move_token(terms)
       IN  /\ terms.move_token_counter <= MaxMoveTokenCounter + 1
           /\ terms.move_token_counter >= move_token_counter[e]
           /\ tc_status' = [tc_status EXCEPT
                               ![e] = ConsistentIn(hashed(move_token))]
           /\ move_token_counter' =
                 [move_token_counter EXCEPT ![e] = terms.move_token_counter]
           /\ mutual_credits' =
                 [mutual_credits EXCEPT
                     ![e] = reset_mutual_credits(mirror(terms.balances))]
           /\ tc_seen' = [tc_seen EXCEPT
                             ![e] = Max(@, terms.move_token_counter)]
           /\ tc_chain' = [tc_chain EXCEPT ![e] = <<move_token>>]
    /\ tc_event' = [type |-> "AcceptRemoteReset", endpoint |-> e]
    /\ UNCHANGED <<tc_online, tc_sent>>
    /\ UNCHANGED <<chVars, kaVars, rpVars, scVars, sbVars, msVars>>

\* Propose local: the operator sends the local reset terms as the outgoing
\* MoveToken.
ProposeLocalReset(e) ==
    /\ tc_status[e].tag = "Inconsistent"
    /\ LET terms == tc_status[e].local_reset_terms
           move_token == reset_move_token(terms)
       IN  /\ terms.move_token_counter <= MaxMoveTokenCounter
           /\ tc_status' = [tc_status EXCEPT
                               ![e] = ConsistentOut(move_token, None)]
           /\ move_token_counter' =
                 [move_token_counter EXCEPT ![e] = terms.move_token_counter]
           /\ mutual_credits' =
                 [mutual_credits EXCEPT
                     ![e] = reset_mutual_credits(terms.balances)]
           /\ tc_sent' = [tc_sent EXCEPT
                             ![e] = Append(@, terms.move_token_counter)]
           /\ tc_seen' = [tc_seen EXCEPT
                             ![e] = Max(@, terms.move_token_counter)]
           /\ tc_chain' = [tc_chain EXCEPT ![e] = <<move_token>>]
    /\ tc_event' = [type |-> "ProposeLocalReset", endpoint |-> e]
    /\ UNCHANGED tc_online
    /\ UNCHANGED <<chVars, kaVars, rpVars, scVars, sbVars, msVars>>

TcNext ==
    \/ \E e \in Endpoints, operations \in OperationLists :
          SendMoveToken(e, operations)
    \/ \E e \in Endpoints :
          \E m \in PeerOutgoing(e) \cup InvalidMoveTokens(e) :
              ReceiveMoveToken(e, m)
    \/ SetFriendOnline
    \/ SetFriendOffline
    \/ \E e \in Endpoints : ReceiveResetTerms(e)
    \/ \E e \in Endpoints : AcceptRemoteReset(e)
    \/ \E e \in Endpoints : ProposeLocalReset(e)

(***************************************************************************)
(* The report of the Funder: a FunderReport and the mutations that         *)
(* funder_report_mutate applies to it.                                     *)
(***************************************************************************)
ReportValues == 0 .. MaxReportValue

\* Option<A> of opt_address, Option<MoveTokenHashedReport> of
\* opt_last_incoming_move_token.
OptReportValues == {<<"None">>} \cup {<<"Some", v>> : v \in ReportValues}

\* ChannelStatusReport::{Consistent, Inconsistent}
ChannelStatusReports == {"Consistent", "Inconsistent"}

\* FriendReportMutation: the variants, each with the value it sets.
FriendReportMutations ==
    [type : {"SetFriendInfo"}, address : ReportValues, name : ReportValues]
        \cup [type : {"SetChannelStatus"}, value : ChannelStatusReports]
        \cup [type : {"SetWantedRemoteMaxDebt", "SetNumPendingResponses",
                      "SetNumPendingRequests", "SetNumPendingUserRequests"},
              value : ReportValues]
        \cup [type : {"SetWantedLocalRequestsStatus"}, value : {"Open", "Closed"}]
        \cup [type : {"SetFriendStatus"}, value : {"Enabled", "Disabled"}]
        \cup [type : {"SetOptLastIncomingMoveToken"}, value : OptReportValues]
        \cup [type : {"SetLiveness"}, value : {"Online", "Offline"}]

\* FunderReportMutation: the variants.  An AddFriend carries an
\* AddFriendReport.
FunderReportMutations ==
    [type : {"SetAddress"}, value : OptReportValues]
        \cup [type : {"AddFriend"}, friend_public_key : FriendKeys,
              address : ReportValues, name : ReportValues,
              opt_last_incoming_move_token : {<<"None">>},
              channel_status : ChannelStatusReports]
        \cup [type : {"RemoveFriend"}, friend_public_key : FriendKeys]
        \cup [type : {"FriendReportMutation"}, friend_public_key : FriendKeys,
              friend_report_mutation : FriendReportMutations]
        \cup [type : {"SetNumReadyReceipts"}, value : ReportValues]

\* HashMap::insert and HashMap::remove on funder_report.friends.
friends_insert(friends, key, value) ==
    [k \in DOMAIN friends \cup {key} |-> IF k = key THEN value ELSE friends[k]]
friends_remove(friends, key) ==
    [k \in DOMAIN friends \ {key} |-> friends[k]]

\* friend_report_mutate
friend_report_mutate(friend_report, mutation) ==
    CASE mutation.type = "SetFriendInfo" ->
            [friend_report EXCEPT !.address = mutation.address,
                                  !.name = mutation.name]
      [] mutation.type = "SetChannelStatus" ->
            [friend_report EXCEPT !.channel_status = mutation.value]
      [] mutation.type = "SetWantedRemoteMaxDebt" ->
            [friend_report EXCEPT !.wanted_remote_max_debt = mutation.value]
      [] mutation.type = "SetWantedLocalRequestsStatus" ->
            [friend_report EXCEPT !.wanted_local_requests_status = mutation.value]
      [] mutation.type = "SetNumPendingResponses" ->
            [friend_report EXCEPT !.num_pending_responses = mutation.value]
      [] mutation.type = "SetNumPendingRequests" ->
            [friend_report EXCEPT !.num_pending_requests = mutation.value]
      [] mutation.type = "SetFriendStatus" ->
            [friend_report EXCEPT !.status = mutation.value]
      [] mutation.type = "SetNumPendingUserRequests" ->
            [friend_report EXCEPT !.num_pending_user_requests = mutation.value]
      [] mutation.type = "SetOptLastIncomingMoveToken" ->
            [friend_report EXCEPT !.opt_last_incoming_move_token = mutation.value]
      [] mutation.type = "SetLiveness" ->
            [friend_report EXCEPT !.liveness = mutation.value]

\* The result of funder_report_mutate, with the report as the call leaves it.
Mutated(report, result) == [report |-> report, result |-> result]

\* FunderReportMutation::AddFriend: the FriendReport of a new friend is
\* inserted; Err(FriendAlreadyExists) if insert returns the report it
\* replaced.
mutate_AddFriend(report, add_friend_report) ==
    LET friend_report ==
            [address |-> add_friend_report.address,
             name |-> add_friend_report.name,
             opt_last_incoming_move_token |->
                 add_friend_report.opt_last_incoming_move_token,
             liveness |-> "Offline",
             channel_status |-> add_friend_report.channel_status,
             wanted_remote_max_debt |-> 0,
             wanted_local_requests_status |-> "Closed",
             num_pending_responses |-> 0,
             num_pending_requests |-> 0,
             status |-> "Disabled",
             num_pending_user_requests |-> 0]
        inserted ==
            [report EXCEPT !.friends =
                friends_insert(@, add_friend_report.friend_public_key, friend_report)]
    IN IF add_friend_report.friend_public_key \in DOMAIN report.friends
       THEN Mutated(inserted, "FriendAlreadyExists")
       ELSE Mutated(inserted, "Ok")

mutate_RemoveFriend_ok(report, friend_public_key) ==
    Mutated([report EXCEPT !.friends = friends_remove(@, friend_public_key)], "Ok")

\* FunderReportMutation::RemoveFriend: Err(FriendDoesNotExist) if remove
\* returns None.
mutate_RemoveFriend(report, friend_public_key) ==
    IF friend_public_key \notin DOMAIN report.friends
    THEN Mutated(report, "FriendDoesNotExist")
    ELSE Mutated([report EXCEPT !.friends = friends_remove(@, friend_public_key)],
                 "Ok")

\* FunderReportMutation::FriendReportMutation: get_mut(..).ok_or(
\* FriendDoesNotExist)?, then friend_report_mutate on the friend.
mutate_FriendReportMutation(report, friend_public_key, friend_report_mutation) ==
    IF friend_public_key \notin DOMAIN report.friends
    THEN Mutated(report, "FriendDoesNotExist")
    ELSE Mutated([report EXCEPT !.friends[friend_public_key] =
                      friend_report_mutate(@, friend_report_mutation)],
                 "Ok")

\* funder_report_mutate
funder_report_mutate(report, mutation) ==
    CASE mutation.type = "SetAddress" ->
            Mutated([report EXCEPT !.opt_address = mutation.value], "Ok")
      [] mutation.type = "AddFriend" ->
            mutate_AddFriend(report, mutation)
      [] mutation.type = "RemoveFriend" ->
            mutate_RemoveFriend(report, mutation.friend_public_key)
      [] mutation.type = "FriendReportMutation" ->
            mutate_FriendReportMutation(report, mutation.friend_public_key,
                                        mutation.friend_report_mutation)
      [] mutation.type = "SetNumReadyReceipts" ->
            Mutated([report EXCEPT !.num_ready_receipts = mutation.value], "Ok")

\* create_report of a Funder that has no friend and no receipt yet.
ReportInit ==
    /\ funder_report = [local_public_key |-> local_public_key,
                        opt_address |-> <<"None">>,
                        friends |-> [k \in {} |-> 0],
                        num_ready_receipts |-> 0]
    /\ report_result = "None"
    /\ report_calls = 0

\* One call funder_report_mutate(&mut funder_report, &mutation).
ReportMutate(mutation) ==
    /\ report_calls < MaxReportCalls
    /\ LET mutated == funder_report_mutate(funder_report, mutation)
       IN /\ funder_report' = mutated.report
          /\ report_result' = mutated.result
    /\ report_calls' = report_calls + 1
    /\ UNCHANGED <<chVars, kaVars, tcVars, scVars, sbVars, msVars>>

ReportNext == \E mutation \in FunderReportMutations : ReportMutate(mutation)

(***************************************************************************)
(* The messages of the secure channel and their wire form (serialize.rs).  *)
(* A value of n bits is a byte array of n / 64 words; a word has WordBytes *)
(* bytes here (8 on the wire).                                             *)
(***************************************************************************)
Words(bits) == bits \div 64
ByteLen(bits) == Words(bits) * WordBytes

\* The byte arrays of a length the messages are built from: one byte
\* repeated, as in the tests, and the bytes 1, 2, 3, ...
Counting(len) == [i \in 1 .. len |-> i]
ByteArrays(len) ==
    {[i \in 1 .. len |-> b] : b \in 1 .. MaxFillByte} \cup {Counting(len)}

\* rand_padding and PlainData: vectors of any length.
ByteVecs == {Counting(len) : len \in 0 .. MaxVecLen}

\* The unsigned integer of big-endian bytes, and the n big-endian bytes of
\* an unsigned integer.
RECURSIVE from_big_endian(_)
from_big_endian(bytes) ==
    IF bytes = << >> THEN 0
    ELSE from_big_endian(SubSeq(bytes, 1, Len(bytes) - 1)) * 256
             + bytes[Len(bytes)]

RECURSIVE to_big_endian(_, _)
to_big_endian(word, n) ==
    IF n = 0 THEN << >>
    ELSE Append(to_big_endian(word \div 256, n - 1), word % 256)

\* The same in little-endian order, the order of a word on the wire.
Reverse(seq) == [i \in 1 .. Len(seq) |-> seq[Len(seq) + 1 - i]]
to_little_endian(word, n) == Reverse(to_big_endian(word, n))
from_little_endian(bytes) == from_big_endian(Reverse(bytes))

\* write_custom_u_int128 / 256 / 512: the words x0, x1, ... of a custom
\* integer, each read big-endian from the next bytes of the array.
write_custom_u_int(bits, from) ==
    [i \in 1 .. Words(bits) |->
        from_big_endian(SubSeq(from, (i - 1) * WordBytes + 1, i * WordBytes))]

RECURSIVE read_words(_, _)
read_words(inner, i) ==
    IF i > Len(inner) THEN << >>
    ELSE to_big_endian(inner[i], WordBytes) \o read_words(inner, i + 1)

\* read_custom_u_int128 / 256 / 512: the array of the words x0, x1, ...,
\* each written big-endian.
read_custom_u_int(bits, inner) == read_words(inner, 1)

\* serialize_packed::write_message for a struct of words only: the words
\* of the message, in the order of the schema.
RECURSIVE write_words(_)
write_words(words) ==
    IF words = << >> THEN << >>
    ELSE to_little_endian(Head(words), WordBytes) \o write_words(Tail(words))

\* serialize_packed::read_message and get_root for a struct of n words:
\* the words, or an error for bytes that are no such message.
ReadOk(value) == [ok |-> TRUE, value |-> value, error |-> "Ok"]
ReadErr(error) == [ok |-> FALSE, value |-> << >>, error |-> error]
read_struct(data, n) ==
    IF Len(data) # n * WordBytes THEN ReadErr("CapnpError")
    ELSE ReadOk([i \in 1 .. n |->
                    from_little_endian(
                        SubSeq(data, (i - 1) * WordBytes + 1, i * WordBytes))])

\* The words of the field that starts after `before` bits of a struct.
Field(words, before, bits) ==
    SubSeq(words, Words(before) + 1, Words(before) + Words(bits))

\* serialize_exchange_rand_nonce
serialize_exchange_rand_nonce(exchange_rand_nonce) ==
    write_words(write_custom_u_int(128, exchange_rand_nonce.rand_nonce)
                    \o write_custom_u_int(256, exchange_rand_nonce.public_key))

\* deserialize_exchange_rand_nonce
deserialize_exchange_rand_nonce(data) ==
    LET msg == read_struct(data, Words(128 + 256))
    IN IF ~msg.ok THEN msg
       ELSE ReadOk([rand_nonce |->
                        read_custom_u_int(128, Field(msg.value, 0, 128)),
                    public_key |->
                        read_custom_u_int(256, Field(msg.value, 128, 256))])

\* serialize_exchange_dh
serialize_exchange_dh(exchange_dh) ==
    write_words(write_custom_u_int(256, exchange_dh.dh_public_key)
                    \o write_custom_u_int(128, exchange_dh.rand_nonce)
                    \o write_custom_u_int(256, exchange_dh.key_salt)
                    \o write_custom_u_int(512, exchange_dh.signature))

\* The salt read where the public key is, and the public key where the
\* salt is.
deserialize_exchange_dh_swapped(data) ==
    LET msg == read_struct(data, Words(256 + 128 + 256 + 512))
    IN IF ~msg.ok THEN msg
       ELSE ReadOk([dh_public_key |->
                        read_custom_u_int(256, Field(msg.value, 256 + 128, 256)),
                    rand_nonce |->
                        read_custom_u_int(128, Field(msg.value, 256, 128)),
                    key_salt |->
                        read_custom_u_int(256, Field(msg.value, 0, 256)),
                    signature |->
                        read_custom_u_int(512,
                            Field(msg.value, 256 + 128 + 256, 512))])

\* deserialize_exchange_dh
deserialize_exchange_dh(data) ==
    LET msg == read_struct(data, Words(256 + 128 + 256 + 512))
    IN IF ~msg.ok THEN msg
       ELSE ReadOk([dh_public_key |->
                        read_custom_u_int(256, Field(msg.value, 0, 256)),
                    rand_nonce |->
                        read_custom_u_int(128, Field(msg.value, 256, 128)),
                    key_salt |->
                        read_custom_u_int(256, Field(msg.value, 256 + 128, 256)),
                    signature |->
                        read_custom_u_int(512,
                            Field(msg.value, 256 + 128 + 256, 512))])

\* ChannelContent::{Rekey, User}
ContentRekey(rekey) == [tag |-> "Rekey", rekey |-> rekey]
ContentUser(plain_data) == [tag |-> "User", plain_data |-> plain_data]

\* A Data field: its length, then its bytes.
write_data(bytes) == <<Len(bytes)>> \o bytes

\* serialize_channel_message: rand_padding, then the union content with its
\* discriminant (0 for rekey, 1 for user).
serialize_channel_message(channel_message) ==
    write_data(channel_message.rand_padding)
        \o IF channel_message.content.tag = "Rekey"
           THEN <<0>>
                    \o write_words(
                           write_custom_u_int(256,
                               channel_message.content.rekey.dh_public_key)
                           \o write_custom_u_int(256,
                               channel_message.content.rekey.key_salt))
           ELSE <<1>> \o write_data(channel_message.content.plain_data)

\* deserialize_channel_message: get_rand_padding, then which() of the
\* content: a Rekey, a User, or Err(NotInSchema).
deserialize_channel_message(data) ==
    IF data = << >> \/ Len(data) < data[1] + 2 THEN ReadErr("CapnpError")
    ELSE LET rand_padding == SubSeq(data, 2, data[1] + 1)
             which == data[data[1] + 2]
             rest == SubSeq(data, data[1] + 3, Len(data))
         IN IF which = 0
            THEN LET rekey == read_struct(rest, Words(256 + 256))
                 IN IF ~rekey.ok THEN rekey
                    ELSE ReadOk(
                        [rand_padding |-> rand_padding,
                         content |-> ContentRekey(
                            [dh_public_key |->
                                 read_custom_u_int(256,
                                     Field(rekey.value, 0, 256)),
                             key_salt |->
                                 read_custom_u_int(256,
                                     Field(rekey.value, 256, 256))])])
            ELSE IF which = 1
            THEN IF rest = << >> \/ Len(rest) # rest[1] + 1
                 THEN ReadErr("CapnpError")
                 ELSE ReadOk([rand_padding |-> rand_padding,
                              content |-> ContentUser(
                                  SubSeq(rest, 2, Len(rest)))])
            ELSE ReadErr("NotInSchema")

\* The messages: every ExchangeRandNonce, ExchangeDh and ChannelMessage over
\* the byte arrays above.
ExchangeRandNonces ==
    [rand_nonce : ByteArrays(ByteLen(128)), public_key : ByteArrays(ByteLen(256))]
ExchangeDhs ==
    [dh_public_key : ByteArrays(ByteLen(256)),
     rand_nonce : ByteArrays(ByteLen(128)),
     key_salt : ByteArrays(ByteLen(256)),
     signature : ByteArrays(ByteLen(512))]
Rekeys ==
    [dh_public_key : ByteArrays(ByteLen(256)), key_salt : ByteArrays(ByteLen(256))]
ChannelMessages ==
    [rand_padding : ByteVecs,
     content : {ContentRekey(rekey) : rekey \in Rekeys}
                   \cup {ContentUser(plain_data) : plain_data \in ByteVecs}]

ScMessages ==
    {[type |-> "ExchangeRandNonce", value |-> m] : m \in ExchangeRandNonces}
        \cup {[type |-> "ExchangeDh", value |-> m] : m \in ExchangeDhs}
        \cup {[type |-> "ChannelMessage", value |-> m] : m \in ChannelMessages}

\* The message of test_serialize_exchange_rand_nonce.
TestExchangeRandNonce ==
    [type |-> "ExchangeRandNonce",
     value |-> [rand_nonce |-> [i \in 1 .. ByteLen(128) |-> 1],
                public_key |-> [i \in 1 .. ByteLen(256) |-> 2]]]

\* A message is there, not yet serialized.
ScStart(msg) ==
    /\ sc_message = msg
    /\ sc_serialized = ReadErr("None")
    /\ sc_deserialized = ReadErr("None")

ScInit == \E msg \in ScMessages : ScStart(msg)

\* let serialized = serialize_..(&msg);
ScSerialize ==
    /\ sc_serialized.error = "None"
    /\ sc_serialized' =
          ReadOk(CASE sc_message.type = "ExchangeRandNonce" ->
                         serialize_exchange_rand_nonce(sc_message.value)
                   [] sc_message.type = "ExchangeDh" ->
                         serialize_exchange_dh(sc_message.value)
                   [] sc_message.type = "ChannelMessage" ->
                         serialize_channel_message(sc_message.value))
    /\ UNCHANGED <<sc_message, sc_deserialized>>
    /\ UNCHANGED <<chVars, kaVars, tcVars, rpVars, sbVars, msVars>>

\* let msg2 = deserialize_..(&serialized[..]);
ScDeserialize ==
    /\ sc_serialized.ok
    /\ sc_deserialized.error = "None"
    /\ sc_deserialized' =
          CASE sc_message.type = "ExchangeRandNonce" ->
                  deserialize_exchange_rand_nonce(sc_serialized.value)
            [] sc_message.type = "ExchangeDh" ->
                  deserialize_exchange_dh(sc_serialized.value)
            [] sc_message.type = "ChannelMessage" ->
                  deserialize_channel_message(sc_serialized.value)
    /\ UNCHANGED <<sc_message, sc_serialized>>
    /\ UNCHANGED <<chVars, kaVars, tcVars, rpVars, sbVars, msVars>>

ScNext ==
    \/ ScSerialize
    \/ ScDeserialize

(***************************************************************************)
(* The buffers the Funder signs over (signature_buff.rs).  A buffer is a   *)
(* sequence of bytes; a digest stands in it as its preimage between two    *)
(* marks that are no bytes, so that different preimages give different     *)
(* digests.                                                                *)
(***************************************************************************)
\* const FUND_SUCCESS_PREFIX: &[u8] = b"FUND_SUCCESS";
FUND_SUCCESS_PREFIX == <<70, 85, 78, 68, 95, 83, 85, 67, 67, 69, 83, 83>>
\* const FUND_FAILURE_PREFIX: &[u8] = b"FUND_FAILURE";
FUND_FAILURE_PREFIX == <<70, 85, 78, 68, 95, 70, 65, 73, 76, 85, 82, 69>>

\* hash::sha_512_256
sha_512_256(data) == <<256>> \o data \o <<257>>

\* Route::hash: the digest of the public keys of the route, in order.
RECURSIVE route_bytes(_)
route_bytes(route) ==
    IF route = << >> THEN << >> ELSE Head(route) \o route_bytes(Tail(route))
route_hash(route) == sha_512_256(route_bytes(route))

\* Route::pk_to_index: the index of the key on the route, or None.
pk_to_index(route, public_key) ==
    IF \E i \in 1 .. Len(route) : route[i] = public_key
    THEN <<"Some", CHOOSE i \in 1 .. Len(route) :
                      /\ route[i] = public_key
                      /\ \A j \in 1 .. i - 1 : route[j] # public_key>>
    ELSE <<"None">>

\* A signature: who made it, and over which message.
Signed(public_key, message) == [signer |-> public_key, message |-> message]

\* crypto::identity::verify_signature
verify_signature(message, public_key, signature) ==
    signature = Signed(public_key, message)

\* sbuffer.write_u128::<BigEndian>(value)
write_u128(value) == to_big_endian(value, 128 \div 8)

\* The request id taken from the response instead of the pending request.
create_response_signature_buffer_own_id(response_send_funds, pending_request) ==
    sha_512_256(FUND_SUCCESS_PREFIX)
        \o sha_512_256(response_send_funds.request_id
                           \o route_hash(pending_request.route)
                           \o response_send_funds.rand_nonce)
        \o write_u128(pending_request.dest_payment)
        \o pending_request.invoice_id

\* create_response_signature_buffer
create_response_signature_buffer(response_send_funds, pending_request) ==
    LET inner_blob == pending_request.request_id
                          \o route_hash(pending_request.route)
                          \o response_send_funds.rand_nonce
    IN sha_512_256(FUND_SUCCESS_PREFIX)
           \o sha_512_256(inner_blob)
           \o write_u128(pending_request.dest_payment)
           \o pending_request.invoice_id

\* create_failure_signature_buffer
create_failure_signature_buffer(failure_send_funds, pending_request) ==
    sha_512_256(FUND_FAILURE_PREFIX)
        \o pending_request.request_id
        \o route_hash(pending_request.route)
        \o write_u128(pending_request.dest_payment)
        \o pending_request.invoice_id
        \o failure_send_funds.reporting_public_key
        \o failure_send_funds.rand_nonce

\* The signature verified, wherever the reporting key is.
verify_failure_signature_any_key(index, reporting_index, failure_send_funds, pending_request) ==
    IF verify_signature(
           create_failure_signature_buffer(failure_send_funds, pending_request),
           failure_send_funds.reporting_public_key,
           failure_send_funds.signature)
    THEN <<"Some">>
    ELSE <<"None">>

\* verify_failure_signature: None unless the reporting key is on the route
\* and the signature verifies under it over the failure signature buffer.
verify_failure_signature(index, reporting_index, failure_send_funds, pending_request) ==
    LET failure_signature_buffer ==
            create_failure_signature_buffer(failure_send_funds, pending_request)
        reporting_public_key == failure_send_funds.reporting_public_key
    IN IF pk_to_index(pending_request.route, reporting_public_key) = <<"None">>
       THEN <<"None">>
       ELSE IF ~verify_signature(failure_signature_buffer, reporting_public_key,
                                 failure_send_funds.signature)
       THEN <<"None">>
       ELSE <<"Some">>

\* The values the buffers are made of: public keys, request ids, nonces and
\* invoice ids are byte arrays, a payment is a u128.
SbKeys == {<<k>> : k \in 1 .. MaxSbKey}
SbIds == {<<10 + i>> : i \in 1 .. MaxSbId}
SbNonces == {<<20 + i>> : i \in 1 .. MaxSbId}
SbPayments == {1, 258}
SbRoutes == {<<<<1>>, <<2>>>>, <<<<2>>, <<1>>>>}

PendingFriendRequests ==
    [request_id : SbIds, route : SbRoutes, dest_payment : SbPayments,
     invoice_id : {<<30>>}]

ResponseSendFundsSet ==
    [request_id : SbIds, rand_nonce : SbNonces, signature : {<<40>>}]

\* The failures sent for a pending request: a signature made by any key,
\* over the buffer of this failure or of one with another nonce.
FailureSendFundsFor(pending_request) ==
    {[request_id |-> pending_request.request_id,
      reporting_public_key |-> k,
      rand_nonce |-> n,
      signature |->
          Signed(s, create_failure_signature_buffer(
                        [reporting_public_key |-> k, rand_nonce |-> n2],
                        pending_request))] :
        k \in SbKeys, n \in SbNonces, s \in SbKeys, n2 \in SbNonces}

\* A pending request, with a response and a failure that came for it.
SbStart(pending_request, response_send_funds, failure_send_funds) ==
    /\ sb_pending_request = pending_request
    /\ sb_response_send_funds = response_send_funds
    /\ sb_failure_send_funds = failure_send_funds
    /\ sb_response_buffer = <<"None">>
    /\ sb_failure_verified = <<"NotYet">>

SbInit ==
    \E pending_request \in PendingFriendRequests,
       response_send_funds \in ResponseSendFundsSet :
        \E failure_send_funds \in FailureSendFundsFor(pending_request) :
            SbStart(pending_request, response_send_funds, failure_send_funds)

\* The parked state of the buffers.
SbParked ==
    LET pending_request ==
            [request_id |-> <<11>>, route |-> <<<<1>>, <<2>>>>,
             dest_payment |-> 1, invoice_id |-> <<30>>]
    IN SbStart(pending_request,
               [request_id |-> <<11>>, rand_nonce |-> <<21>>, signature |-> <<40>>],
               [request_id |-> <<11>>, reporting_public_key |-> <<1>>,
                rand_nonce |-> <<21>>,
                signature |-> Signed(<<1>>,
                    create_failure_signature_buffer(
                        [reporting_public_key |-> <<1>>, rand_nonce |-> <<21>>],
                        pending_request))])

\* create_response_signature_buffer(&response_send_funds, &pending_request)
SbCreateResponseBuffer ==
    /\ sb_response_buffer = <<"None">>
    /\ sb_response_buffer' =
          <<"Some", create_response_signature_buffer(sb_response_send_funds,
                                                     sb_pending_request)>>
    /\ UNCHANGED <<sb_pending_request, sb_response_send_funds,
                   sb_failure_send_funds, sb_failure_verified>>
    /\ UNCHANGED <<chVars, kaVars, tcVars, rpVars, scVars, msVars>>

\* verify_failure_signature(index, reporting_index, &failure_send_funds,
\* &pending_request)
SbVerifyFailure(index, reporting_index) ==
    /\ sb_failure_verified = <<"NotYet">>
    /\ sb_failure_verified' =
          verify_failure_signature(index, reporting_index,
                                   sb_failure_send_funds, sb_pending_request)
    /\ UNCHANGED <<sb_pending_request, sb_response_send_funds,
                   sb_failure_send_funds, sb_response_buffer>>
    /\ UNCHANGED <<chVars, kaVars, tcVars, rpVars, scVars, msVars>>

SbNext ==
    \/ SbCreateResponseBuffer
    \/ \E index \in 0 .. 1, reporting_index \in 0 .. 1 :
          SbVerifyFailure(index, reporting_index)

(***************************************************************************)
(* The state of the messenger of the Networker: the neighbors and their    *)
(* token channel slots (messenger_state.rs), and the configuration the     *)
(* application manager sends (handle_app_manager.rs).                      *)
(***************************************************************************)
\* The public keys of the neighbors: a node is not its own neighbor.
NeighborKeys == FriendKeys
\* channel_index of a token channel slot.
ChannelIndices == 0 .. MaxChannelIndex
\* max_channels, remote_max_debt and balance_for_reset of a configuration.
MsValues == 0 .. MaxMsValue
\* NeighborStatus
NeighborStatuses == {"Enable", "Disable"}

\* NetworkerConfig: what the application manager asks for.
NetworkerConfigs ==
    [type : {"SetNeighborRemoteMaxDebt"}, neighbor_public_key : NeighborKeys,
     channel_index : ChannelIndices, remote_max_debt : MsValues]
        \cup [type : {"ResetNeighborChannel"},
              neighbor_public_key : NeighborKeys,
              channel_index : ChannelIndices, balance_for_reset : MsValues]
        \cup [type : {"SetNeighborMaxChannels"},
              neighbor_public_key : NeighborKeys, max_channels : MsValues]
        \cup [type : {"AddNeighbor"}, neighbor_public_key : NeighborKeys,
              max_channels : MsValues]
        \cup [type : {"RemoveNeighbor"}, neighbor_public_key : NeighborKeys]
        \cup [type : {"SetNeighborStatus"}, neighbor_public_key : NeighborKeys,
              status : NeighborStatuses]

\* SmInitTokenChannel and SmResetTokenChannel of StateMutateMessage.
SmMessages ==
    [type : {"InitTokenChannel"}, neighbor_public_key : NeighborKeys,
     channel_index : ChannelIndices]
        \cup [type : {"ResetTokenChannel"}, neighbor_public_key : NeighborKeys,
              channel_index : ChannelIndices, balance_for_reset : MsValues]

\* Result<(), MessengerStateError> with the neighbors the operation leaves.
MsOk(neighbors) ==
    [ok |-> TRUE, error |-> "None", neighbors |-> neighbors, db |-> "None"]
MsErr(error, neighbors) ==
    [ok |-> FALSE, error |-> error, neighbors |-> neighbors, db |-> "None"]
\* Ok((Some(DatabaseMessage), Vec::new())) of handle_app_manager.rs.
AmOk(neighbors, config) ==
    [ok |-> TRUE, error |-> "None", neighbors |-> neighbors,
     db |-> config.type]

\* DirectionalTokenChannel::new: the side with the smaller public key starts
\* with its token sent, the balance is zero.
DirectionalTokenChannel_new(local, remote, index) ==
    [outgoing |-> compare_public_key(local, remote) = "Less", balance |-> 0]

\* DirectionalTokenChannel::new_from_reset: as a new channel, with the
\* balance of the reset.
DirectionalTokenChannel_new_from_reset(local, remote, index, balance) ==
    [outgoing |-> compare_public_key(local, remote) = "Less", balance |-> balance]

\* TokenChannelSlot::new
TokenChannelSlot_new(local, remote, index) ==
    [tc_state |-> DirectionalTokenChannel_new(local, remote, index),
     tc_status |-> "Valid",
     wanted_remote_max_debt |-> 0]

\* TokenChannelSlot::new_from_reset
TokenChannelSlot_new_from_reset(local, remote, index, balance) ==
    [tc_state |->
         DirectionalTokenChannel_new_from_reset(local, remote, index, balance),
     tc_status |-> "Valid",
     wanted_remote_max_debt |-> 0]

\* NeighborState::new
NeighborState_new(max_channels) ==
    [local_max_channels |-> max_channels,
     remote_max_channels |-> max_channels,
     status |-> "Disable",
     token_channel_slots |-> << >>]

\* HashMap::insert on token_channel_slots of one neighbor.
slots_insert(neighbors, pk, index, slot) ==
    [neighbors EXCEPT ![pk].token_channel_slots =
        [i \in DOMAIN @ \cup {index} |-> IF i = index THEN slot ELSE @[i]]]

\* MessengerState::set_neighbor_remote_max_debt
set_neighbor_remote_max_debt(neighbors, m) ==
    LET pk == m.neighbor_public_key
    IN  IF pk \notin DOMAIN neighbors
        THEN MsErr("NeighborDoesNotExist", neighbors)
        ELSE IF m.channel_index
                    \notin DOMAIN neighbors[pk].token_channel_slots
        THEN MsErr("TokenChannelDoesNotExist", neighbors)
        ELSE MsOk([neighbors EXCEPT
                       ![pk].token_channel_slots[m.channel_index]
                           .wanted_remote_max_debt = m.remote_max_debt])

\* reset_neighbor_channel that replaces the slot before it looks for it.
reset_neighbor_channel_insert_first(neighbors, m) ==
    LET pk == m.neighbor_public_key
    IN  IF pk \notin DOMAIN neighbors
        THEN MsErr("NeighborDoesNotExist", neighbors)
        ELSE LET new_token_channel_slot ==
                     TokenChannelSlot_new_from_reset(local_public_key, pk,
                         m.channel_index, m.balance_for_reset)
                 inserted == slots_insert(neighbors, pk, m.channel_index,
                                          new_token_channel_slot)
             IN  IF m.channel_index
                        \notin DOMAIN neighbors[pk].token_channel_slots
                 THEN MsErr("TokenChannelDoesNotExist", inserted)
                 ELSE MsOk(inserted)

\* MessengerState::reset_neighbor_channel
reset_neighbor_channel(neighbors, m) ==
    LET pk == m.neighbor_public_key
    IN  IF pk \notin DOMAIN neighbors
        THEN MsErr("NeighborDoesNotExist", neighbors)
        ELSE LET new_token_channel_slot ==
                     TokenChannelSlot_new_from_reset(local_public_key, pk,
                         m.channel_index, m.balance_for_reset)
             IN  IF m.channel_index
                        \notin DOMAIN neighbors[pk].token_channel_slots
                 THEN MsErr("TokenChannelDoesNotExist", neighbors)
                 ELSE MsOk(slots_insert(neighbors, pk, m.channel_index,
                                        new_token_channel_slot))

\* MessengerState::set_neighbor_max_channels
set_neighbor_max_channels(neighbors, m) ==
    LET pk == m.neighbor_public_key
    IN  IF pk \notin DOMAIN neighbors
        THEN MsErr("NeighborDoesNotExist", neighbors)
        ELSE MsOk([neighbors EXCEPT
                       ![pk].local_max_channels = m.max_channels])

\* MessengerState::add_neighbor
add_neighbor(neighbors, m) ==
    LET pk == m.neighbor_public_key
    IN  IF pk \in DOMAIN neighbors
        THEN MsErr("NeighborAlreadyExists", neighbors)
        ELSE MsOk([k \in DOMAIN neighbors \cup {pk} |->
                      IF k = pk THEN NeighborState_new(m.max_channels)
                      ELSE neighbors[k]])

\* MessengerState::remove_neighbor
remove_neighbor(neighbors, m) ==
    LET pk == m.neighbor_public_key
        removed == [k \in DOMAIN neighbors \ {pk} |-> neighbors[k]]
    IN  IF pk \notin DOMAIN neighbors
        THEN MsErr("NeighborDoesNotExist", removed)
        ELSE MsOk(removed)

\* MessengerState::set_neighbor_status
set_neighbor_status(neighbors, m) ==
    LET pk == m.neighbor_public_key
    IN  IF pk \notin DOMAIN neighbors
        THEN MsErr("NeighborDoesNotExist", neighbors)
        ELSE MsOk([neighbors EXCEPT ![pk].status = m.status])

\* MessengerState::init_token_channel
init_token_channel(neighbors, m) ==
    LET pk == m.neighbor_public_key
    IN  IF pk \notin DOMAIN neighbors
        THEN MsErr("NeighborDoesNotExist", neighbors)
        ELSE IF m.channel_index \in DOMAIN neighbors[pk].token_channel_slots
        THEN MsErr("TokenChannelAlreadyExists", neighbors)
        ELSE MsOk(slots_insert(neighbors, pk, m.channel_index,
                      TokenChannelSlot_new(local_public_key, pk,
                                           m.channel_index)))

\* MessengerState::reset_token_channel
reset_token_channel(neighbors, m) ==
    LET pk == m.neighbor_public_key
    IN  IF pk \notin DOMAIN neighbors
        THEN MsErr("NeighborDoesNotExist", neighbors)
        ELSE LET token_channel_slot ==
                     TokenChannelSlot_new_from_reset(local_public_key, pk,
                         m.channel_index, m.balance_for_reset)
             IN  MsOk(slots_insert(neighbors, pk, m.channel_index,
                                   token_channel_slot))

\* MessengerState::begin_outgoing_move_token on the slot of a neighbor: the
\* sender it returns is taken from a channel whose token is here.
slot_begin_outgoing_move_token(neighbors, pk, channel_index) ==
    IF pk \notin DOMAIN neighbors
    THEN MsErr("NeighborDoesNotExist", neighbors)
    ELSE IF channel_index \notin DOMAIN neighbors[pk].token_channel_slots
    THEN MsErr("TokenChannelDoesNotExist", neighbors)
    ELSE IF neighbors[pk].token_channel_slots[channel_index].tc_state.outgoing
    THEN MsErr("TokenChannelAlreadyOutgoing", neighbors)
    ELSE MsOk(neighbors)

\* app_manager_set_neighbor_remote_max_debt
app_manager_set_neighbor_remote_max_debt(neighbors, m) ==
    LET pk == m.neighbor_public_key
    IN  IF pk \notin DOMAIN neighbors
        THEN MsErr("NeighborDoesNotExist", neighbors)
        ELSE IF m.channel_index
                    \notin DOMAIN neighbors[pk].token_channel_slots
        THEN MsErr("TokenChannelDoesNotExist", neighbors)
        ELSE AmOk([neighbors EXCEPT
                       ![pk].token_channel_slots[m.channel_index]
                           .wanted_remote_max_debt = m.remote_max_debt], m)

\* app_manager_reset_neighbor_channel: the new slot is made from the terms
\* of the reset.
app_manager_reset_neighbor_channel(neighbors, m) ==
    LET pk == m.neighbor_public_key
    IN  IF pk \notin DOMAIN neighbors
        THEN MsErr("NeighborDoesNotExist", neighbors)
        ELSE LET new_token_channel_slot ==
                     TokenChannelSlot_new_from_reset(local_public_key, pk,
                         m.channel_index, m.balance_for_reset)
             IN  IF m.channel_index
                        \notin DOMAIN neighbors[pk].token_channel_slots
                 THEN MsErr("TokenChannelDoesNotExist", neighbors)
                 ELSE AmOk(slots_insert(neighbors, pk, m.channel_index,
                                        new_token_channel_slot), m)

\* app_manager_set_neighbor_max_channels
app_manager_set_neighbor_max_channels(neighbors, m) ==
    LET pk == m.neighbor_public_key
    IN  IF pk \notin DOMAIN neighbors
        THEN MsErr("NeighborDoesNotExist", neighbors)
        ELSE AmOk([neighbors EXCEPT
                       ![pk].local_max_channels = m.max_channels], m)

\* app_manager_add_neighbor
app_manager_add_neighbor(neighbors, m) ==
    LET pk == m.neighbor_public_key
    IN  IF pk \in DOMAIN neighbors
        THEN MsErr("NeighborAlreadyExists", neighbors)
        ELSE AmOk([k \in DOMAIN neighbors \cup {pk} |->
                      IF k = pk THEN NeighborState_new(m.max_channels)
                      ELSE neighbors[k]], m)

\* app_manager_remove_neighbor
app_manager_remove_neighbor(neighbors, m) ==
    LET pk == m.neighbor_public_key
        removed == [k \in DOMAIN neighbors \ {pk} |-> neighbors[k]]
    IN  IF pk \notin DOMAIN neighbors
        THEN MsErr("NeighborDoesNotExist", removed)
        ELSE AmOk(removed, m)

\* app_manager_set_neighbor_status
app_manager_set_neighbor_status(neighbors, m) ==
    LET pk == m.neighbor_public_key
    IN  IF pk \notin DOMAIN neighbors
        THEN MsErr("NeighborDoesNotExist", neighbors)
        ELSE AmOk([neighbors EXCEPT ![pk].status = m.status], m)

\* handle_app_manager_message
handle_app_manager_message(neighbors, networker_config) ==
    CASE networker_config.type = "SetNeighborRemoteMaxDebt" ->
            app_manager_set_neighbor_remote_max_debt(neighbors,
                                                     networker_config)
      [] networker_config.type = "ResetNeighborChannel" ->
            app_manager_reset_neighbor_channel(neighbors, networker_config)
      [] networker_config.type = "SetNeighborMaxChannels" ->
            app_manager_set_neighbor_max_channels(neighbors, networker_config)
      [] networker_config.type = "AddNeighbor" ->
            app_manager_add_neighbor(neighbors, networker_config)
      [] networker_config.type = "RemoveNeighbor" ->
            app_manager_remove_neighbor(neighbors, networker_config)
      [] networker_config.type = "SetNeighborStatus" ->
            app_manager_set_neighbor_status(neighbors, networker_config)

\* The operation of MessengerState that applies a configuration.
messenger_state_apply(neighbors, m) ==
    CASE m.type = "SetNeighborRemoteMaxDebt" ->
            set_neighbor_remote_max_debt(neighbors, m)
      [] m.type = "ResetNeighborChannel" -> reset_neighbor_channel(neighbors, m)
      [] m.type = "SetNeighborMaxChannels" ->
            set_neighbor_max_channels(neighbors, m)
      [] m.type = "AddNeighbor" -> add_neighbor(neighbors, m)
      [] m.type = "RemoveNeighbor" -> remove_neighbor(neighbors, m)
      [] m.type = "SetNeighborStatus" -> set_neighbor_status(neighbors, m)
      [] m.type = "InitTokenChannel" -> init_token_channel(neighbors, m)
      [] m.type = "ResetTokenChannel" -> reset_token_channel(neighbors, m)

\* channel_index of a message, 0 for a message about the whole neighbor.
IndexOf(m) ==
    IF m.type \in {"SetNeighborRemoteMaxDebt", "ResetNeighborChannel",
                   "InitTokenChannel", "ResetTokenChannel"}
    THEN m.channel_index ELSE 0

\* A MessengerState that has no neighbors yet, before any call.
MsInit ==
    /\ ms_neighbors = << >>
    /\ ms_result = [op |-> "None", type |-> "None", pk |-> 0, index |-> 0,
                    ok |-> TRUE, error |-> "None", db |-> "None"]
    /\ ms_calls = 0

\* A call has returned res: the state is what the call left.
MsReturn(op, type, pk, index, res) ==
    /\ ms_calls' = ms_calls + 1
    /\ ms_neighbors' = res.neighbors
    /\ ms_result' = [op |-> op, type |-> type, pk |-> pk, index |-> index,
                     ok |-> res.ok, error |-> res.error, db |-> res.db]
    /\ UNCHANGED <<chVars, kaVars, tcVars, rpVars, scVars, sbVars>>

\* A call of one of the operations of MessengerState.
MsMutate(m) ==
    /\ ms_calls < MaxMessengerCalls
    /\ MsReturn("MessengerState", m.type, m.neighbor_public_key, IndexOf(m),
                messenger_state_apply(ms_neighbors, m))

\* A call of begin_outgoing_move_token.
MsBeginOutgoingMoveToken(pk, channel_index) ==
    /\ ms_calls < MaxMessengerCalls
    /\ MsReturn("MessengerState", "BeginOutgoingMoveToken", pk, channel_index,
                slot_begin_outgoing_move_token(ms_neighbors, pk,
                                               channel_index))

\* A call of handle_app_manager_message.
MsHandleAppManagerMessage(networker_config) ==
    /\ ms_calls < MaxMessengerCalls
    /\ MsReturn("handle_app_manager_message", networker_config.type,
                networker_config.neighbor_public_key,
                IndexOf(networker_config),
                handle_app_manager_message(ms_neighbors, networker_config))

MsNext ==
    \/ \E m \in NetworkerConfigs \cup SmMessages : MsMutate(m)
    \/ \E pk \in NeighborKeys, channel_index \in ChannelIndices :
          MsBeginOutgoingMoveToken(pk, channel_index)
    \/ \E networker_config \in NetworkerConfigs :
          MsHandleAppManagerMessage(networker_config)

(***************************************************************************)
(* Specifications.  Each one runs one part of the node beside the others   *)
(* as they are when they have just started: Spec runs the Channeler,       *)
(* SpecKeepalive the keepalive loop, SpecTokenChannel the token channel,   *)
(* SpecReport the report of the Funder, SpecSerialize the serializers of   *)
(* the secure channel, SpecSignature the signature buffers and             *)
(* SpecMessenger the state of the messenger.                               *)
(***************************************************************************)
Init == ChInit /\ KaStart(MaxKeepaliveTicks) /\ TcInit /\ ReportInit
            /\ ScStart(TestExchangeRandNonce) /\ SbParked /\ MsInit

Next == ChNext

Spec == Init /\ [][Next]_vars

InitKeepalive == ChInit /\ KaInit /\ TcInit /\ ReportInit
            /\ ScStart(TestExchangeRandNonce) /\ SbParked /\ MsInit

NextKeepalive == KaNext

SpecKeepalive == InitKeepalive /\ [][NextKeepalive]_vars

InitTokenChannel == ChInit /\ KaStart(MaxKeepaliveTicks) /\ TcInit /\ ReportInit
            /\ ScStart(TestExchangeRandNonce) /\ SbParked /\ MsInit

NextTokenChannel == TcNext

SpecTokenChannel == InitTokenChannel /\ [][NextTokenChannel]_vars

InitReport == ChInit /\ KaStart(MaxKeepaliveTicks) /\ TcInit /\ ReportInit
            /\ ScStart(TestExchangeRandNonce) /\ SbParked /\ MsInit

NextReport == ReportNext

SpecReport == InitReport /\ [][NextReport]_vars

InitSerialize ==
    ChInit /\ KaStart(MaxKeepaliveTicks) /\ TcInit /\ ReportInit /\ ScInit
        /\ SbParked /\ MsInit

NextSerialize == ScNext

SpecSerialize == InitSerialize /\ [][NextSerialize]_vars

InitSignature ==
    ChInit /\ KaStart(MaxKeepaliveTicks) /\ TcInit /\ ReportInit
        /\ ScStart(TestExchangeRandNonce) /\ SbInit /\ MsInit

NextSignature == SbNext

SpecSignature == InitSignature /\ [][NextSignature]_vars

InitMessenger ==
    ChInit /\ KaStart(MaxKeepaliveTicks) /\ TcInit /\ ReportInit
        /\ ScStart(TestExchangeRandNonce) /\ SbParked /\ MsInit

NextMessenger == MsNext

SpecMessenger == InitMessenger /\ [][NextMessenger]_vars

(***************************************************************************)
(* Properties of the Channeler.                                            *)
(***************************************************************************)
\* The key is a friend of the registry.
IsFriend(pk) == in_friends[pk] # Absent \/ out_friends[pk] # Absent

\* The friend's recorded status is Connected.
IsConnected(pk) == get_friend_connected(pk) # Absent

\* The sessions of a key: accepted connections whose receive task runs.
LiveSessions(pk) ==
    {s \in Sessions : sessions[s].recv = "Running" /\ sessions[s].pk = pk}

\* A Connected friend holds the sender of a live session of its own key.
FriendSessionOK ==
    \A pk \in PublicKeys :
        IsConnected(pk) => get_friend_connected(pk).sid \in LiveSessions(pk)

\* Types of the state.
TypeOK ==
    /\ \A pk \in PublicKeys :
          /\ in_friends[pk].status \in {"Absent", "Listening", "Connected"}
          /\ out_friends[pk].status \in {"Absent", "Connecting", "Connected"}
          /\ conn_events[pk] \in 0 .. MaxConnEvents
          /\ connect_tasks[pk] \in 0 .. MaxConnectTasks
          /\ funder_view[pk] \in {"Online", "Offline"}
    /\ lp_friends \subseteq PublicKeys
    /\ Len(to_funder) <= 1
    /\ \A s \in Sessions :
          /\ sessions[s].recv \in {"Free", "Running"}
          /\ sessions[s].send \in {"Done", "Running"}
          /\ sessions[s].opt_item \in {0} \cup Payloads
          /\ sessions[s].send = "Done" => sessions[s].opt_item = 0
    /\ loop_result \in {"Running", "ListenerClosed", "ConnectorClosed", "FunderClosed"}
                          \cup HandlerErrors

\* In this step the loop took a ChannelerEvent::Connection for the key.
TookConnection(pk) ==
    /\ loop_result' = "Running"
    /\ \/ conn_events'[pk] < conn_events[pk]
       \/ connect_tasks'[pk] < connect_tasks[pk]

\* In this step the loop handled the ReceiverClosed of session s: its
\* receive task is done.
TookReceiverClosed(s) ==
    /\ sessions[s].recv = "Running"
    /\ sessions'[s].recv = "Free"

\* The frames 1 .. n, as a peer numbers them.
Frames(n) == [i \in 1 .. n |-> i]

\* C1: in every reachable state, a registered friend has at most one live
\* session (an accepted connection whose receive task has not yet delivered
\* ReceiverClosed).
C1_OneLiveSessionPerFriend ==
    \A pk \in PublicKeys : IsFriend(pk) => Cardinality(LiveSessions(pk)) <= 1

\* C2: a friend is an InFriend iff local_pk < remote_pk and an OutFriend
\* otherwise: every key of in_friends is greater than the local key, no key
\* of out_friends is, and no key is in both maps.
C2_RoleByKeyOrder ==
    \A pk \in PublicKeys :
        /\ in_friends[pk] # Absent => local_public_key < pk
        /\ out_friends[pk] # Absent => ~(local_public_key < pk)
        /\ ~(in_friends[pk] # Absent /\ out_friends[pk] # Absent)

\* C2's case: a listening and an initiating friend are both registered.
C2_Witness ==
    /\ in_friends[2] # Absent
    /\ out_friends[0] # Absent

\* C3: for each key the Online and Offline reports the Funder receives
\* alternate, starting with Online: no Online(pk) when the last report for pk
\* was Online, no Offline(pk) when it was Offline or there was none.
C3_OnlineOfflineAlternate ==
    [][\A pk \in PublicKeys :
          /\ to_funder' = <<Online(pk)>> => funder_view[pk] = "Offline"
          /\ to_funder' = <<Offline(pk)>> => funder_view[pk] = "Online"]_vars

\* C4: when ReceiverClosed(pk) is handled for a friend recorded as Connected,
\* Offline(pk) is sent to the Funder, an InFriend becomes Listening (and no
\* connect attempt is spawned), an OutFriend becomes Connecting and exactly
\* one connect attempt for pk is spawned.
C4_ReceiverClosedResets ==
    [][\A s \in Sessions :
          LET pk == sessions[s].pk
          IN (TookReceiverClosed(s) /\ IsConnected(pk)) =>
                /\ to_funder' = <<Offline(pk)>>
                /\ in_friends[pk] # Absent =>
                      /\ in_friends'[pk] = Listening
                      /\ connect_tasks' = connect_tasks
                /\ out_friends[pk] # Absent =>
                      /\ out_friends'[pk] = Connecting
                      /\ connect_tasks' =
                            [connect_tasks EXCEPT ![pk] = connect_tasks[pk] + 1]]_vars

\* C4's case: the ReceiverClosed of a connected OutFriend was just handled.
C4_Witness ==
    /\ to_funder = <<Offline(0)>>
    /\ out_friends[0] = Connecting
    /\ connect_tasks[0] >= 1

\* C5: a connection that arrives for a friend recorded as Connected is
\* dropped: the friend's sender and status stay, no receive task is spawned
\* and no Online is sent.
C5_ConnectionWhileConnectedDropped ==
    [][\A pk \in PublicKeys :
          (TookConnection(pk) /\ IsConnected(pk)) =>
              /\ in_friends' = in_friends
              /\ out_friends' = out_friends
              /\ sessions' = sessions
              /\ to_funder' = << >>]_vars

\* C5's case: a connection for a connected friend was just dropped.
C5_Witness ==
    /\ log = <<"Already connected">>
    /\ \E pk \in PublicKeys : IsConnected(pk)

\* The flat vector expected for each local_addresses the Funder gives.
ExpectedFlat(local_addresses) ==
    CASE local_addresses = << >> -> << >>
      [] local_addresses = <<<<1>>, <<2>>>> -> <<1, 2>>

\* C6: for a friend pk with local_pk < pk no connect attempt is ever
\* outstanding and nothing is sent to a connect pool; UpdateFriend for such a
\* friend sends LpConfig::UpdateFriend((pk, addresses)), with the flattened
\* local addresses, to the Listen Pool.
C6_ListenFriendNeverConnects ==
    [][\A pk \in PublicKeys :
          local_public_key < pk =>
              /\ connect_tasks'[pk] = 0
              /\ \A i \in 1 .. Len(connector_config') : connector_config'[i].pk # pk
              /\ \A fa \in FriendAddresses, la \in LocalAddresses :
                    FunderUpdateFriend(pk, fa, la) =>
                        listen_config' = <<LpUpdateFriend(pk, ExpectedFlat(la))>>]_vars

\* C6's case: UpdateFriend for a listen friend has just configured the
\* Listen Pool, with two local address vectors flattened.
C6_Witness ==
    /\ in_friends[2] # Absent
    /\ listen_config = <<LpUpdateFriend(2, <<1, 2>>)>>

\* The friend can be sent to: it is Connected, holds its sender, and the
\* send task of its session runs.
CanSendTo(pk) ==
    /\ IsConnected(pk)
    /\ get_friend_connected(pk).opt_sender
    /\ sessions[get_friend_connected(pk).sid].send = "Running"

\* C7: at most one undelivered outbound message is kept per friend and a
\* newer Message replaces it: after Message(pk, B) the overwrite channel
\* holds B whatever it held, and what the peer reads next is the item held,
\* which is then no longer held.
C7_NewestMessageReplaces ==
    [][/\ \A pk \in FriendKeys, m \in Payloads :
             (FunderMessage(pk, m) /\ CanSendTo(pk)) =>
                 sessions'[get_friend_connected(pk).sid].opt_item = m
       /\ \A s \in Sessions :
             (sessions[s].opt_item # 0 /\ sessions'[s].opt_item = 0
                 /\ sessions'[s].send = "Running") =>
                 to_remote' = <<[sid |-> s, pk |-> sessions[s].pk,
                                 data |-> sessions[s].opt_item]>>
       /\ to_remote' # << >> =>
             /\ sessions[to_remote'[1].sid].opt_item = to_remote'[1].data
             /\ sessions'[to_remote'[1].sid].opt_item = 0]_vars

\* C7's case: a message is held undelivered for a connected friend whose
\* peer has not read, and the Funder can send the next one.
C7_Witness ==
    \E pk \in FriendKeys :
        /\ CanSendTo(pk)
        /\ sessions[get_friend_connected(pk).sid].opt_item = 1

C9_InboundInOrder ==
    [][\A s \in Sessions :
          /\ sessions'[s].recv = "Running" =>
                /\ Len(sessions'[s].funder_got) <= sessions'[s].n_sent
                /\ sessions'[s].funder_got = Frames(Len(sessions'[s].funder_got))
          /\ (sessions[s].recv = "Running" /\ sessions'[s].recv = "Running"
                /\ sessions'[s].funder_got # sessions[s].funder_got) =>
                /\ to_funder' = <<Message(sessions[s].pk,
                                          Len(sessions[s].funder_got) + 1)>>
                /\ sessions'[s].funder_got =
                      Append(sessions[s].funder_got, Len(sessions[s].funder_got) + 1)
          /\ TookReceiverClosed(s) =>
                sessions[s].funder_got = Frames(sessions[s].n_sent)]_vars

\* C9's case: two frames of one session were delivered to the Funder.
C9_Witness ==
    \E s \in Sessions :
        /\ sessions[s].funder_got = <<1, 2>>
        /\ to_funder = <<Message(sessions[s].pk, 2)>>

\* The friend is Connected and the send of a Message to it fails: it holds
\* its sender, and the send task of its session has ended.
SendWillFail(pk) ==
    /\ IsConnected(pk)
    /\ get_friend_connected(pk).opt_sender
    /\ sessions[get_friend_connected(pk).sid].send # "Running"

\* The friend is Connected and its sender was cleared.
SenderCleared(pk) ==
    /\ IsConnected(pk)
    /\ ~get_friend_connected(pk).opt_sender

\* C25: a Message for a connected friend whose send fails clears that
\* friend's sender and nothing else; a Message for a friend whose sender is
\* cleared changes nothing; in both cases nothing is reported or logged, the
\* loop keeps running and every other friend is as it was.  A cleared sender
\* stays cleared for as long as the friend's connection is the recorded one.
C25_SendFailureClearsOneSender ==
    [][\A pk \in FriendKeys :
          /\ \A m \in Payloads :
                (FunderMessage(pk, m) /\ IsConnected(pk)) =>
                    /\ loop_result' = "Running"
                    /\ to_funder' = << >>
                    /\ log' = << >>
                    /\ \A q \in PublicKeys \ {pk} :
                          /\ in_friends'[q] = in_friends[q]
                          /\ out_friends'[q] = out_friends[q]
                    /\ SendWillFail(pk) =>
                          /\ sessions' = sessions
                          /\ get_friend_connected(pk)' =
                                [get_friend_connected(pk) EXCEPT
                                    !.opt_sender = FALSE]
                    /\ SenderCleared(pk) =>
                          /\ sessions' = sessions
                          /\ in_friends' = in_friends
                          /\ out_friends' = out_friends
          /\ (SenderCleared(pk) /\ IsConnected(pk)') => SenderCleared(pk)']_vars

\* C25's case: the sender of friend 2 was cleared by a failed send, the loop
\* runs, and friend 0 is connected and can be sent to.
C25_Witness ==
    /\ loop_result = "Running"
    /\ SenderCleared(2)
    /\ CanSendTo(0)
    /\ \A m \in Payloads : ENABLED FunderMessage(2, m)

C28_ReceiverClosedOfNonFriend ==
    [][\A s \in Sessions :
          (TookReceiverClosed(s) /\ ~IsFriend(sessions[s].pk)) =>
              /\ to_funder' = << >>
              /\ connect_tasks' = connect_tasks
              /\ in_friends' = in_friends
              /\ out_friends' = out_friends
              /\ loop_result' = "Running"]_vars

\* C28's case: the Funder was told a key is Online, the key is no friend any
\* more and the receive tasks of its connections have all ended, with no
\* Offline and no friend made of it.
C28_Witness ==
    /\ loop_result = "Running"
    /\ \E pk \in PublicKeys :
          /\ ~IsFriend(pk)
          /\ funder_view[pk] = "Online"
          /\ LiveSessions(pk) = {}
          /\ connect_tasks[pk] = 0
    /\ to_funder = << >>

\* C33: a friend is demoted from Connected, and Offline(pk) is sent, only
\* when the receiver of the friend's current session closes: handling the
\* ReceiverClosed of another, earlier session of the key sends no Offline(pk)
\* and leaves the friend's status, with its sender, as it is.
C33_StaleReceiverClosedIgnored ==
    [][\A s \in Sessions :
          LET pk == sessions[s].pk
          IN (TookReceiverClosed(s) /\ IsConnected(pk)
                  /\ get_friend_connected(pk).sid # s) =>
                /\ to_funder' = << >>
                /\ in_friends'[pk] = in_friends[pk]
                /\ out_friends'[pk] = out_friends[pk]]_vars

\* C34: every Online(pk), Offline(pk) and Message(pk, bytes) the Channeler
\* sends to the Funder names a key that is a registered friend when it is
\* sent; a connection or a frame of a key that was removed, or never added,
\* sends nothing.
C34_EventsNameFriends ==
    \A i \in 1 .. Len(to_funder) : IsFriend(to_funder[i].pk)

\* C35: for every OutFriend at most one connect attempt spawned by the
\* Channeler is outstanding at any time.
C35_OneConnectAttempt ==
    \A pk \in PublicKeys : out_friends[pk] # Absent => connect_tasks[pk] <= 1

\* C36: while the loop runs, whenever a registered OutFriend is Connecting, a
\* connect attempt for it is outstanding or the Connection it produced is
\* still queued for the loop.
C36_ConnectingHasAttempt ==
    loop_result = "Running" =>
        \A pk \in PublicKeys :
            out_friends[pk].status = "Connecting" => connect_tasks[pk] >= 1

\* C36's case: an OutFriend is Connecting again after the receiver of its
\* connection closed, with a new attempt under way.
C36_Witness ==
    /\ loop_result = "Running"
    /\ to_funder = <<Offline(0)>>
    /\ out_friends[0].status = "Connecting"
    /\ connect_tasks[0] = 1

\* C38: UpdateFriend for a key that is a registered friend leaves the
\* friend's role and connection status as they are and spawns no connect
\* attempt; it only sends the configuration again: LpConfig::UpdateFriend to
\* the Listen Pool for an InFriend, the friend's address to the
\* config_client of an OutFriend.
C38_UpdateOfExistingFriend ==
    [][\A pk \in FriendKeys, friend_address \in FriendAddresses,
          local_addresses \in LocalAddresses :
          (FunderUpdateFriend(pk, friend_address, local_addresses) /\ IsFriend(pk)) =>
              /\ in_friends' = in_friends
              /\ out_friends' = out_friends
              /\ connect_tasks' = connect_tasks
              /\ sessions' = sessions
              /\ to_funder' = << >>
              /\ in_friends[pk] # Absent =>
                    /\ listen_config' =
                          <<LpUpdateFriend(pk, ExpectedFlat(local_addresses))>>
                    /\ connector_config' = << >>
              /\ out_friends[pk] # Absent =>
                    /\ connector_config' = <<[pk |-> pk, address |-> friend_address]>>
                    /\ listen_config' = << >>]_vars

\* C38's case: a connected OutFriend was just sent its address again.
C38_Witness ==
    /\ out_friends[0].status = "Connected"
    /\ connector_config = <<[pk |-> 0, address |-> <<0>>]>>
    /\ connect_tasks[0] = 0

(***************************************************************************)
(* Properties of the keepalive loop.                                       *)
(***************************************************************************)
\* Types of the keepalive state.
KaTypeOK ==
    /\ keepalive_ticks \in KeepaliveTicks
    /\ ticks_to_close \in 0 .. keepalive_ticks
    /\ ticks_to_send_keepalive \in 0 .. (keepalive_ticks \div 2)
    /\ ka_result \in {"Running", "Ok", "RemoteTimeout", "TimerClosed",
                      "SendToUserError", "SendToRemoteError", "DeserializeError"}
    /\ silent_ticks \in Nat
    /\ out_ticks \in Nat

\* C10: with keepalive_ticks = N >= 1 the loop returns RemoteTimeout at
\* exactly the N-th consecutive timer tick without a frame from the remote:
\* it returns RemoteTimeout only at such a tick, it does return it at such a
\* tick, while it runs fewer than N silent ticks have passed, and a frame
\* from the remote (Message or KeepAlive) restarts the count at N.
C10_RemoteTimeoutAtNthSilentTick ==
    [][(keepalive_ticks >= 1 /\ ka_result = "Running") =>
          /\ ka_result' = "RemoteTimeout" =>
                /\ silent_ticks' = silent_ticks + 1
                /\ silent_ticks' = keepalive_ticks
          /\ (silent_ticks' = silent_ticks + 1 /\ silent_ticks' = keepalive_ticks) =>
                ka_result' = "RemoteTimeout"
          /\ ka_result' = "Running" =>
                /\ silent_ticks' < keepalive_ticks
                /\ ticks_to_close' = keepalive_ticks - silent_ticks'
          /\ \A f \in WireFrames, send_ok \in BOOLEAN :
                (KaMessageFromRemote(f, send_ok) /\ deserialize_ka_message(f).ok) =>
                    /\ silent_ticks' = 0
                    /\ ticks_to_close' = keepalive_ticks]_vars

\* C10's case: started with keepalive_ticks = 3, the loop returned
\* RemoteTimeout at the third tick in a row without a frame from the remote.
C10_Witness ==
    /\ keepalive_ticks = 3
    /\ ka_result = "RemoteTimeout"
    /\ silent_ticks = 3

\* The loop has just handled a TimerTick and still runs.
KaTickedOn ==
    /\ ka_event' = <<"TimerTick">>
    /\ ka_result = "Running"
    /\ ka_result' = "Running"

\* C11: while the loop runs, a KeepAlive frame is sent at a tick exactly when
\* N/2 ticks have then elapsed since the last outbound frame (user Message or
\* KeepAlive) or since the start, and at no other step; a user message that
\* is sent restarts the count, so that the ticks still to pass before the
\* next KeepAlive are always N/2 less the ticks elapsed since the last
\* outbound frame.
C11_KeepAliveEveryHalfPeriod ==
    [][/\ KaTickedOn =>
             (ka_to_remote' = <<serialize_ka_message(KaMessage_KeepAlive)>>
                 <=> out_ticks + 1 = keepalive_ticks \div 2)
       /\ (ka_event' # <<"TimerTick">> \/ ka_result' # "Running") =>
             ka_to_remote' # <<serialize_ka_message(KaMessage_KeepAlive)>>
       /\ (ka_result' = "Running" /\ ka_to_remote' # << >>) => out_ticks' = 0
       /\ (ka_result' = "Running" /\ keepalive_ticks >= 2) =>
             /\ out_ticks' < keepalive_ticks \div 2
             /\ ticks_to_send_keepalive' = (keepalive_ticks \div 2) - out_ticks']_vars

\* C11's case: with N = 6, a user message was sent after the first tick, and
\* the KeepAlive has just been sent at the third tick after it (the fourth
\* of the run).
C11_Witness ==
    /\ keepalive_ticks = 6
    /\ ka_result = "Running"
    /\ ka_event = <<"TimerTick">>
    /\ ka_to_remote = <<serialize_ka_message(KaMessage_KeepAlive)>>
    /\ silent_ticks = 4

\* C12: the user receives exactly the payloads of the inbound
\* KaMessage::Message frames, each as its frame is handled: a frame that
\* encodes Message(d) delivers d, a frame that encodes KeepAlive delivers
\* nothing, no other step delivers anything; and a user payload b is sent to
\* the remote as the encoding of KaMessage::Message(b).
C12_PayloadsPassThrough ==
    [][ka_result' = "Running" =>
          /\ \A d \in KaPayloads :
                ka_event' = <<"MessageFromRemote", serialize_ka_message(KaMessage_Message(d))>>
                    => ka_to_user' = <<d>>
          /\ ka_event' = <<"MessageFromRemote", serialize_ka_message(KaMessage_KeepAlive)>>
                => ka_to_user' = << >>
          /\ ka_event'[1] # "MessageFromRemote" => ka_to_user' = << >>
          /\ \A b \in KaPayloads :
                ka_event' = <<"MessageFromUser", b>> =>
                    /\ ka_to_remote' = <<serialize_ka_message(KaMessage_Message(b))>>
                    /\ deserialize_ka_message(ka_to_remote'[1]) =
                          [ok |-> TRUE, ka_message |-> KaMessage_Message(b)]]_vars

\* C12's case: the frame Message(2) from the remote was just delivered to the
\* user as 2.
C12_Witness ==
    /\ ka_result = "Running"
    /\ ka_event = <<"MessageFromRemote", serialize_ka_message(KaMessage_Message(2))>>
    /\ ka_to_user = <<2>>

\* The results keepalive_loop can return.
KaResults ==
    {"Ok", "TimerClosed", "RemoteTimeout", "SendToUserError",
     "SendToRemoteError", "DeserializeError"}

\* C27: the loop returns Ok when the user stream or the remote stream closes
\* and TimerClosed when the timer stream closes; the step in which it
\* returns, whatever the result, sends no frame, and once it has returned
\* nothing is handled any more: no frame goes to the remote and none to the
\* user, whose receiver is left with the end of the stream as to_user is
\* dropped with the loop.
C27_LoopTerminates ==
    [][/\ KaUserChannelClosed => ka_result' = "Ok"
       /\ KaTunnelChannelClosed => ka_result' = "Ok"
       /\ KaTimerClosed => ka_result' = "TimerClosed"
       /\ (ka_result = "Running" /\ ka_result' # "Running")
              => /\ ka_result' \in KaResults
                 /\ ka_to_remote' = << >>
                 /\ ka_to_user' = << >>
       /\ ka_result # "Running"
              => /\ UNCHANGED kaVars
                 /\ ka_to_remote = << >>
                 /\ ka_to_user = << >>
                 /\ ~ENABLED KaNext]_vars

\* The loop returned RemoteTimeout on a timer tick.
C27_Witness ==
    /\ ka_result = "RemoteTimeout"
    /\ ka_event = <<"TimerTick">>
    /\ keepalive_ticks >= 2
    /\ ka_to_remote = << >>
    /\ ka_to_user = << >>

(***************************************************************************)
(* Properties of the token channel.                                        *)
(***************************************************************************)
\* The MoveTokens that can arrive at an endpoint.
Arrivals(e) == PeerOutgoing(e) \cup InvalidMoveTokens(e)

\* The endpoint in ConsistentOut handles the arrival of the MoveToken.
ReceivesInOut(e, move_token) ==
    /\ tc_status[e].tag = "ConsistentOut"
    /\ ReceiveMoveToken(e, move_token)

\* The operations of the MoveToken validate at the endpoint.
OperationsValidate(e, move_token) ==
    process_operations_list(mutual_credits[e], move_token.operations, TRUE).ok

\* The mutual credits of the endpoint once the operations are applied.
OperationsApplied(e, move_token) ==
    process_operations_list(mutual_credits[e], move_token.operations, TRUE).mcs

\* C13 as stated: an endpoint in ConsistentOut(m, last_in) that receives M
\* stays as it is when M is last_in sent again, applies M's operations and
\* becomes ConsistentIn(hash(M)) when M.old_token = m.new_token, and becomes
\* Inconsistent in every other case.
C13_ReceiptInConsistentOut ==
    [][\A e \in Endpoints : \A m \in Arrivals(e) :
          ReceivesInOut(e, m) =>
              IF hashed(m) = tc_status[e].last_move_token_in
              THEN tc_status'[e] = tc_status[e]
              ELSE IF m.old_token = tc_status[e].move_token_out.new_token
              THEN /\ tc_status'[e] = ConsistentIn(hashed(m))
                   /\ mutual_credits'[e] = OperationsApplied(e, m)
              ELSE tc_status'[e].tag = "Inconsistent"]_vars

\* C13 amended: the same, where M is accepted only if it also carries the
\* next counter and all its operations validate; a MoveToken on the chain
\* that skips a counter or carries a failing operation makes the endpoint
\* Inconsistent.
C13_ReceiptInConsistentOutValidated ==
    [][\A e \in Endpoints : \A m \in Arrivals(e) :
          ReceivesInOut(e, m) =>
              IF hashed(m) = tc_status[e].last_move_token_in
              THEN tc_status'[e] = tc_status[e]
              ELSE IF /\ m.old_token = tc_status[e].move_token_out.new_token
                      /\ m.move_token_counter = move_token_counter[e] + 1
                      /\ OperationsValidate(e, m)
              THEN /\ tc_status'[e] = ConsistentIn(hashed(m))
                   /\ mutual_credits'[e] = OperationsApplied(e, m)
              ELSE tc_status'[e].tag = "Inconsistent"]_vars

\* C13's case: endpoint a, in ConsistentOut, has just accepted a MoveToken
\* that carries a request, and holds the request as a pending transaction.
C13_Witness ==
    /\ tc_event = [type |-> "ReceiveMoveToken", endpoint |-> "a",
                   result |-> "Received", error |-> "None"]
    /\ tc_status["a"].tag = "ConsistentIn"
    /\ tc_chain["a"][Len(tc_chain["a"])].operations # << >>
    /\ mutual_credits["a"]["FST"].remote_pending # {}

\* The tokens an endpoint sent or accepted chain: each one's old_token is
\* the new_token of the one before it.
ChainOK(e) ==
    \A i \in 2 .. Len(tc_chain[e]) :
        tc_chain[e][i].old_token = tc_chain[e][i - 1].new_token

\* C14: an endpoint in ConsistentIn(h) can build a MoveToken (below the bound
\* of the model on the counter); the MoveToken it builds has
\* old_token = h.new_token and the counter incremented, and the endpoint
\* becomes ConsistentOut holding it; and each MoveToken an endpoint accepts
\* or sends has as old_token the new_token of the MoveToken before it in the
\* channel.
C14_BuildInConsistentIn ==
    [][\A e \in Endpoints :
          /\ (/\ tc_status[e].tag = "ConsistentIn"
              /\ move_token_counter[e] < MaxMoveTokenCounter)
                => ENABLED SendMoveToken(e, << >>)
          /\ \A operations \in OperationLists :
                (tc_status[e].tag = "ConsistentIn" /\ SendMoveToken(e, operations))
                    => /\ tc_status'[e].tag = "ConsistentOut"
                       /\ tc_status'[e].move_token_out.old_token =
                             tc_status[e].move_token_in.new_token
                       /\ tc_status'[e].move_token_out.move_token_counter =
                             move_token_counter[e] + 1
                       /\ tc_status'[e].move_token_out.operations = operations
                       /\ move_token_counter'[e] = move_token_counter[e] + 1
                       /\ tc_chain'[e][Len(tc_chain'[e])] =
                             tc_status'[e].move_token_out
          /\ ChainOK(e)']_vars

\* C14's case: endpoint a accepted a MoveToken and has just built the next
\* one on it.
C14_Witness ==
    /\ tc_event = [type |-> "SendMoveToken", endpoint |-> "a", result |-> "Sent"]
    /\ tc_status["a"].tag = "ConsistentOut"
    /\ Len(tc_chain["a"]) = 3
    /\ tc_status["a"].move_token_out.old_token = tc_chain["a"][2].new_token
    /\ tc_status["a"].last_move_token_in = hashed(tc_chain["a"][2])


\* C15: in ConsistentOut, begin_outgoing_move_token fails with
\* TokenChannelAlreadyOutgoing; the attempt to build a MoveToken leaves the
\* status, the counter, the mutual credits and the MoveTokens sent as they
\* were; and as long as the endpoint stays in ConsistentOut its outgoing
\* MoveToken is the stored one and no other MoveToken is sent.
C15_NoNewOutgoingInConsistentOut ==
    [][\A e \in Endpoints :
          tc_status[e].tag = "ConsistentOut" =>
              /\ begin_outgoing_move_token(e) =
                    [ok |-> FALSE, error |-> "TokenChannelAlreadyOutgoing"]
              /\ \A operations \in OperationLists :
                    SendMoveToken(e, operations) =>
                        /\ tc_event'.result = "TokenChannelAlreadyOutgoing"
                        /\ UNCHANGED <<tc_status, move_token_counter,
                                       mutual_credits, tc_sent, tc_chain>>
              /\ tc_status'[e].tag = "ConsistentOut" =>
                    /\ tc_status'[e].move_token_out = tc_status[e].move_token_out
                    /\ tc_sent'[e] = tc_sent[e]]_vars

\* C15's case: endpoint b, holding a MoveToken it built as its outgoing
\* message, has just tried to build another one and was refused.
C15_Witness ==
    /\ tc_event = [type |-> "SendMoveToken", endpoint |-> "b",
                   result |-> "TokenChannelAlreadyOutgoing"]
    /\ tc_status["b"].tag = "ConsistentOut"
    /\ tc_sent["b"] = <<1>>
    /\ tc_status["b"].move_token_out.operations # << >>


\* The MoveToken is the one the endpoint accepted last, sent once more.
IsRetransmission(e, move_token) ==
    \/ /\ tc_status[e].tag = "ConsistentIn"
       /\ hashed(move_token) = tc_status[e].move_token_in
    \/ /\ tc_status[e].tag = "ConsistentOut"
       /\ hashed(move_token) = tc_status[e].last_move_token_in

\* The MoveToken is the next of the chain: it chains from the latest token
\* of a consistent channel and carries the next counter.
IsNextOfChain(e, move_token) ==
    /\ tc_status[e].tag # "Inconsistent"
    /\ ~IsRetransmission(e, move_token)
    /\ move_token.old_token = last_token(tc_status[e])
    /\ move_token.move_token_counter = move_token_counter[e] + 1

\* C16: a received MoveToken (not one accepted before and sent again) with an
\* operation that fails validation leaves the balances, the pending debts,
\* the pending transactions and the counter as they were and makes the status
\* Inconsistent; the next MoveToken of the chain whose operations all validate
\* has all its operations applied and advances the counter.
C16_AppliedAtomically ==
    [][\A e \in Endpoints : \A m \in Arrivals(e) :
          (ReceiveMoveToken(e, m) /\ ~IsRetransmission(e, m)) =>
              /\ ~OperationsValidate(e, m) =>
                    /\ mutual_credits'[e] = mutual_credits[e]
                    /\ move_token_counter'[e] = move_token_counter[e]
                    /\ tc_status'[e].tag = "Inconsistent"
              /\ (IsNextOfChain(e, m) /\ OperationsValidate(e, m)) =>
                    /\ mutual_credits'[e] = OperationsApplied(e, m)
                    /\ move_token_counter'[e] = move_token_counter[e] + 1
                    /\ tc_status'[e].tag = "ConsistentIn"]_vars

\* C16's case: endpoint a has just refused a MoveToken for its operations,
\* and its mutual credit is as it was at the start: nothing is pending.
C16_Witness ==
    /\ tc_event = [type |-> "ReceiveMoveToken", endpoint |-> "a",
                   result |-> "ReceiveMoveTokenError",
                   error |-> "InvalidOperations"]
    /\ tc_status["a"].tag = "Inconsistent"
    /\ mutual_credits["a"]["FST"] = McInit
    /\ move_token_counter["a"] = 0


\* The step is a reset the operator asked of the endpoint.
IsResetOf(e) ==
    /\ tc_event'.type \in {"AcceptRemoteReset", "ProposeLocalReset"}
    /\ tc_event'.endpoint = e

\* C17: an Inconsistent endpoint stays Inconsistent, with its reset terms, its
\* counter and its mutual credits as they were, under every MoveToken it
\* receives and under the transport going up or down; a step that takes it out
\* of Inconsistent is one of its two reset actions.
C17_InconsistentIsSticky ==
    [][\A e \in Endpoints :
          tc_status[e].tag = "Inconsistent" =>
              /\ \A m \in Arrivals(e) :
                    ReceiveMoveToken(e, m) =>
                        /\ tc_status'[e] = tc_status[e]
                        /\ move_token_counter'[e] = move_token_counter[e]
                        /\ mutual_credits'[e] = mutual_credits[e]
              /\ (SetFriendOnline \/ SetFriendOffline) =>
                    UNCHANGED <<tc_status, move_token_counter, mutual_credits>>
              /\ tc_status'[e].tag # "Inconsistent" => IsResetOf(e)]_vars

\* C17's case: endpoint a, Inconsistent and holding the reset terms of its
\* peer, has just been sent a MoveToken and is Inconsistent still.
C17_Witness ==
    /\ tc_event = [type |-> "ReceiveMoveToken", endpoint |-> "a",
                   result |-> "ReceiveMoveTokenError", error |-> "Inconsistent"]
    /\ tc_status["a"].tag = "Inconsistent"
    /\ tc_status["a"].remote_reset_terms # None
    /\ tc_status["b"].tag = "ConsistentOut"


\* The tokens of the chain the endpoint keeps.
ChainTokens(e) == {tc_chain[e][i] : i \in 1 .. Len(tc_chain[e])}

\* The MoveToken is the one the peer of e holds as its outgoing message, and
\* e accepted it: it is a token of the chain e keeps.
IsAcceptedOutgoing(e, move_token) ==
    /\ move_token \in PeerOutgoing(e)
    /\ move_token \in ChainTokens(e)

C20_ResetTermsOnInconsistency ==
    [][\A e \in Endpoints :
          (tc_status[e].tag # "Inconsistent"
              /\ tc_status'[e].tag = "Inconsistent") =>
          LET terms == tc_status'[e].local_reset_terms
          IN  /\ DOMAIN terms.balances = Currencies
              /\ \A c \in Currencies :
                    /\ terms.balances[c] = mutual_credits'[e][c].balance
                    /\ terms.balances[c] = mutual_credits[e][c].balance
              /\ terms.move_token_counter > move_token_counter[e]
              /\ terms.move_token_counter > move_token_counter'[e]
              /\ terms.move_token_counter > tc_seen'[e]
              /\ \A i \in 1 .. Len(tc_sent[e]) :
                    terms.move_token_counter > tc_sent[e][i]]_vars

\* C20's case: an endpoint with a balance that is not zero was sent a
\* MoveToken whose counter is its own counter plus two, and is Inconsistent
\* with reset terms of that balance and of the counter after the one received.
C20_Witness ==
    \E e \in Endpoints :
        /\ tc_event = [type |-> "ReceiveMoveToken", endpoint |-> e,
                       result |-> "ReceiveMoveTokenError",
                       error |-> "InvalidMoveTokenCounter"]
        /\ tc_status[e].tag = "Inconsistent"
        /\ tc_seen[e] = move_token_counter[e] + 2
        /\ mutual_credits[e]["FST"].balance # 0
        /\ tc_status[e].local_reset_terms.balances["FST"] =
              mutual_credits[e]["FST"].balance
        /\ tc_status[e].local_reset_terms.move_token_counter = tc_seen[e] + 1


C22_BalanceBounds ==
    \A e \in Endpoints : \A c \in Currencies :
        LET mc == mutual_credits[e][c]
        IN  /\ 0 - mc.local_max_debt <= mc.balance - mc.local_pending_debt
            /\ mc.balance + mc.remote_pending_debt <= mc.remote_max_debt

\* C22's case: an endpoint has just applied a received MoveToken that leaves
\* it at the lower bound with a balance below zero while a request of its
\* peer is pending.
C22_Witness ==
    \E e \in Endpoints :
        /\ tc_event = [type |-> "ReceiveMoveToken", endpoint |-> e,
                       result |-> "Received", error |-> "None"]
        /\ mutual_credits[e]["FST"].balance = 0 - MaxDebt
        /\ mutual_credits[e]["FST"].local_pending_debt = 0
        /\ mutual_credits[e]["FST"].remote_pending_debt > 0
        /\ mutual_credits[e]["FST"].remote_pending # {}


\* The number of operations of a batch that close the request r of currency c:
\* its responses and its failures.
Closes(operations, c, r) ==
    Cardinality({i \in DOMAIN operations :
                    /\ operations[i].op \in {"ResponseSendFunds",
                                             "FailureSendFunds"}
                    /\ operations[i].currency = c
                    /\ operations[i].request_id = r})

\* The step clears every pending transaction of the endpoint by a reset.
ClearedByReset(e) ==
    /\ IsResetOf(e)
    /\ \A c \in Currencies :
          /\ mutual_credits'[e][c].local_pending = {}
          /\ mutual_credits'[e][c].remote_pending = {}

NewChannel == tc_event.type = "None"

ReportMutateErrors == {"FriendDoesNotExist", "FriendAlreadyExists"}

\* The key a mutation names is a friend of the report.
InReport(mutation) == mutation.friend_public_key \in DOMAIN funder_report.friends

\* C29: funder_report_mutate returns FriendAlreadyExists for an AddFriend
\* whose key is in the report, FriendDoesNotExist for a RemoveFriend or a
\* FriendReportMutation whose key is not in the report, and Ok for every
\* other mutation; every call returns.
C29_ReportMutateResults ==
    [][\A mutation \in FunderReportMutations :
          ReportMutate(mutation) =>
              report_result' =
                  CASE mutation.type = "AddFriend" /\ InReport(mutation) ->
                          "FriendAlreadyExists"
                    [] mutation.type \in {"RemoveFriend", "FriendReportMutation"}
                           /\ ~InReport(mutation) ->
                          "FriendDoesNotExist"
                    [] OTHER -> "Ok"]_vars

\* C29's case: an AddFriend for a friend of the report was just refused.
C29_Witness ==
    /\ report_result = "FriendAlreadyExists"
    /\ DOMAIN funder_report.friends # {}

\* C37: whenever funder_report_mutate returns an error the FunderReport is
\* as it was before the call; an AddFriend refused with FriendAlreadyExists
\* does not replace the friend's report.
C37_ErrorLeavesReport ==
    [][(report_calls' # report_calls /\ report_result' \in ReportMutateErrors)
           => funder_report' = funder_report]_vars

(***************************************************************************)
(* Properties of the serializers of the secure channel.                    *)
(***************************************************************************)
\* C30: for every ExchangeRandNonce, ExchangeDh and ChannelMessage m (with
\* Rekey or User content), deserializing the bytes that serializing m gave
\* succeeds and returns a value equal to m.
C30_SerializeRoundTrip ==
    sc_deserialized.error # "None" =>
        /\ sc_deserialized.ok
        /\ sc_deserialized.value = sc_message.value

\* C30's case: a ChannelMessage with padding and user data came back from
\* its bytes.
C30_Witness ==
    /\ sc_deserialized.ok
    /\ sc_message.type = "ChannelMessage"
    /\ sc_message.value.content.tag = "User"
    /\ sc_message.value.content.plain_data # << >>
    /\ sc_message.value.rand_padding # << >>

(***************************************************************************)
(* Properties of the signature buffers.                                    *)
(***************************************************************************)
\* The slice of `len` elements of a buffer after its first `before`.
Slice(buffer, before, len) == SubSeq(buffer, before + 1, before + len)

\* C31: create_response_signature_buffer returns the digest of
\* "FUND_SUCCESS", the digest of request_id, route hash and rand_nonce, the
\* dest_payment as 16 big-endian bytes and the invoice_id, in this order and
\* nothing else; request_id, route, dest_payment and invoice_id are those of
\* the pending request, only rand_nonce is the response's.
C31_ResponseSignatureBuffer ==
    sb_response_buffer[1] = "Some" =>
        LET sbuffer == sb_response_buffer[2]
            prefix == sha_512_256(FUND_SUCCESS_PREFIX)
            inner == sha_512_256(sb_pending_request.request_id
                                     \o route_hash(sb_pending_request.route)
                                     \o sb_response_send_funds.rand_nonce)
            invoice_id == sb_pending_request.invoice_id
        IN /\ Len(sbuffer) = Len(prefix) + Len(inner) + 16 + Len(invoice_id)
           /\ Slice(sbuffer, 0, Len(prefix)) = prefix
           /\ Slice(sbuffer, Len(prefix), Len(inner)) = inner
           /\ from_big_endian(Slice(sbuffer, Len(prefix) + Len(inner), 16))
                  = sb_pending_request.dest_payment
           /\ Slice(sbuffer, Len(prefix) + Len(inner) + 16, Len(invoice_id))
                  = invoice_id

\* C31's case: the buffer was made for a response whose request id is not
\* the pending request's, and a payment of more than one byte.
C31_Witness ==
    /\ sb_response_buffer[1] = "Some"
    /\ sb_response_send_funds.request_id # sb_pending_request.request_id
    /\ sb_pending_request.dest_payment > 255

\* The reporting key of the failure is a key of the pending request's route.
ReportingKeyOnRoute ==
    \E i \in 1 .. Len(sb_pending_request.route) :
        sb_pending_request.route[i] = sb_failure_send_funds.reporting_public_key

\* The failure's signature is the reporting key's, over the failure
\* signature buffer: FUND_FAILURE's digest, request_id, route hash,
\* dest_payment, invoice_id, reporting_public_key, rand_nonce.
FailureSignatureValid ==
    /\ sb_failure_send_funds.signature.signer
           = sb_failure_send_funds.reporting_public_key
    /\ sb_failure_send_funds.signature.message
           = sha_512_256(FUND_FAILURE_PREFIX)
                 \o sb_pending_request.request_id
                 \o route_hash(sb_pending_request.route)
                 \o to_big_endian(sb_pending_request.dest_payment, 16)
                 \o sb_pending_request.invoice_id
                 \o sb_failure_send_funds.reporting_public_key
                 \o sb_failure_send_funds.rand_nonce

\* C32: verify_failure_signature accepts a failure only if its reporting key
\* is on the pending request's route and its signature verifies under that
\* key over the failure signature buffer; a failure whose reporting key is
\* not on the route is rejected, valid signature or not.
C32_FailureSignatureVerified ==
    /\ sb_failure_verified = <<"Some">> =>
          ReportingKeyOnRoute /\ FailureSignatureValid
    /\ (sb_failure_verified # <<"NotYet">> /\ ~ReportingKeyOnRoute) =>
          sb_failure_verified = <<"None">>

\* C32's case: a failure with a valid signature of a key that is not on the
\* route was rejected.
C32_Witness ==
    /\ sb_failure_verified = <<"None">>
    /\ ~ReportingKeyOnRoute
    /\ FailureSignatureValid


(***************************************************************************)
(* Properties of the state of the messenger.                               *)
(***************************************************************************)
\* The neighbor has a token channel slot of this index.
HasSlot(neighbors, pk, index) ==
    /\ pk \in DOMAIN neighbors
    /\ index \in DOMAIN neighbors[pk].token_channel_slots

\* The last call was init_token_channel for this slot, and it succeeded.
InitSucceeded(result, pk, index) ==
    /\ result.type = "InitTokenChannel"
    /\ result.pk = pk
    /\ result.index = index
    /\ result.ok

\* C39: a token channel slot that did not exist before a call exists after
\* it only if the call was a successful init_token_channel for that slot:
\* no other operation, reset_neighbor_channel and reset_token_channel
\* included, creates a slot.
C39_SlotsOnlyFromInit ==
    [][\A pk \in NeighborKeys, index \in ChannelIndices :
          (HasSlot(ms_neighbors', pk, index)
              /\ ~HasSlot(ms_neighbors, pk, index))
              => InitSucceeded(ms_result', pk, index)]_vars

\* The errors of the operations of MessengerState that reject a call.
MsRejections ==
    {"NeighborDoesNotExist", "NeighborAlreadyExists",
     "TokenChannelDoesNotExist", "TokenChannelAlreadyExists",
     "TokenChannelAlreadyOutgoing"}

\* C40: a call that returns NeighborDoesNotExist, NeighborAlreadyExists,
\* TokenChannelDoesNotExist, TokenChannelAlreadyExists or
\* TokenChannelAlreadyOutgoing leaves the neighbors and every token channel
\* slot as they were, and returns no DatabaseMessage.
C40_RejectionLeavesState ==
    [][(ms_calls' # ms_calls /\ ms_result'.error \in MsRejections)
          => (ms_neighbors' = ms_neighbors /\ ms_result'.db = "None")]_vars

\* handle_app_manager_message has rejected the reset of a channel the
\* neighbor does not have, while the neighbor has another channel.
C40_Witness ==
    /\ ms_result.op = "handle_app_manager_message"
    /\ ms_result.type = "ResetNeighborChannel"
    /\ ms_result.error = "TokenChannelDoesNotExist"
    /\ \E index \in ChannelIndices :
          HasSlot(ms_neighbors, ms_result.pk, index)
====
